---- MODULE Spec2Model ----
(***************************************************************************)
(* Model of the symbolic transpiler (app/core/transpiler.py), the          *)
(* optimizer pass (app/core/optimizer.py) and the repository               *)
(* reconstruction pipeline (app/core/reconstructor.py) with the file and   *)
(* source-control helpers it calls (app/utils/file.py, app/utils/git.py).  *)
(*                                                                         *)
(* Texts and paths are strings; a character is a string of length 1.       *)
(***************************************************************************)
EXTENDS Integers, Sequences, FiniteSets, TLC

(***************************************************************************)
(* Python str primitives.                                                  *)
(***************************************************************************)
Char(s, i) == SubSeq(s, i, i)

\* the element of a one-element set: The({F(v) : v \in {e}}) is F(e) with e
\* evaluated once, before F
The(S) == CHOOSE z \in S : TRUE

LowerAlpha == "abcdefghijklmnopqrstuvwxyz"
UpperAlpha == "ABCDEFGHIJKLMNOPQRSTUVWXYZ"
Digits == "0123456789"

CharsOf(s) == {Char(s, i) : i \in 1..Len(s)}

(***************************************************************************)
(* Character tables.  A string of this module holds the characters U+0001  *)
(* to U+00FF other than the grave accent, and of U+0100 to U+FFFF those    *)
(* whose code ends in a byte of 0x80 or more.  The texts of the model are  *)
(* over these characters, and a table lists, of these characters, the ones *)
(* that have the property in Python 3.11 (Unicode 14.0).                   *)
(***************************************************************************)
\* \w of a str pattern: a character for which str.isalnum() is true, or "_";
\* the rows hold the characters above U+007F for which it is true
WordChars ==
    CharsOf(LowerAlpha) \cup CharsOf(UpperAlpha) \cup CharsOf(Digits) \cup {"_"} \cup
    UNION {CharsOf(row) : row \in
    {"ª²³µ¹º¼½¾ÀÁÂÃÄÅÆÇÈÉÊËÌÍÎÏÐÑÒÓÔÕÖØÙÚÛÜÝÞßàáâãäåæçèéêëìíîïðñòó",
     "ôõöøùúûüýþÿƀƁƂƃƄƅƆƇƈƉƊƋƌƍƎƏƐƑƒƓƔƕƖƗƘƙƚƛƜƝƞƟƠơƢƣƤƥƦƧƨƩƪƫƬƭƮƯư",
     "ƱƲƳƴƵƶƷƸƹƺƻƼƽƾƿǀǁǂǃǄǅǆǇǈǉǊǋǌǍǎǏǐǑǒǓǔǕǖǗǘǙǚǛǜǝǞǟǠǡǢǣǤǥǦǧǨǩǪǫǬ",
     "ǭǮǯǰǱǲǳǴǵǶǷǸǹǺǻǼǽǾǿʀʁʂʃʄʅʆʇʈʉʊʋʌʍʎʏʐʑʒʓʔʕʖʗʘʙʚʛʜʝʞʟʠʡʢʣʤʥʦʧʨ",
     "ʩʪʫʬʭʮʯʰʱʲʳʴʵʶʷʸʹʺʻʼʽʾʿˀˁˆˇˈˉˊˋˌˍˎˏːˑˠˡˢˣˤˬˮΆΈΉΊΌΎΏΐΑΒΓΔΕΖΗΘ",
     "ΙΚΛΜΝΞΟΠΡΣΤΥΦΧΨΩΪΫάέήίΰαβγδεζηθικλμνξοπρςστυφχψωϊϋόύώϏϐϑϒϓϔϕ",
     "ϖϗϘϙϚϛϜϝϞϟϠϡϢϣϤϥϦϧϨϩϪϫϬϭϮϯϰϱϲϳϴϵϷϸϹϺϻϼϽϾϿҀҁҊҋҌҍҎҏҐґҒғҔҕҖҗҘҙҚ",
     "қҜҝҞҟҠҡҢңҤҥҦҧҨҩҪҫҬҭҮүҰұҲҳҴҵҶҷҸҹҺһҼҽҾҿӀӁӂӃӄӅӆӇӈӉӊӋӌӍӎӏӐӑӒӓӔӕӖ",
     "ӗӘәӚӛӜӝӞӟӠӡӢӣӤӥӦӧӨөӪӫӬӭӮӯӰӱӲӳӴӵӶӷӸӹӺӻӼӽӾӿրցւփքօֆևֈאבגדהוזחטי",
     "ךכלםמןנסעףפץצקרשתׯװױײڀځڂڃڄڅچڇڈډڊڋڌڍڎڏڐڑڒړڔڕږڗژڙښڛڜڝڞڟڠڡڢڣڤڥڦ",
     "ڧڨکڪګڬڭڮگڰڱڲڳڴڵڶڷڸڹںڻڼڽھڿۀہۂۃۄۅۆۇۈۉۊۋیۍێۏېۑےۓەۥۦۮۯ۰۱۲۳۴۵۶۷۸۹",
     "ۺۻۼۿހށނރބޅކއވމފދތލގޏސޑޒޓޔޕޖޗޘޙޚޛޜޝޞޟޠޡޢޣޤޥޱ߀߁߂߃߄߅߆߇߈߉ߊߋߌߍߎߏߐ",
     "ߑߒߓߔߕߖߗߘߙߚߛߜߝߞߟߠߡߢߣߤߥߦߧߨߩߪߴߵߺࢀࢁࢂࢃࢄࢅࢆࢇࢉࢊࢋࢌࢍࢎࢠࢡࢢࢣࢤࢥࢦࢧࢨࢩࢪࢫࢬࢭࢮࢯࢰ",
     "ࢱࢲࢳࢴࢵࢶࢷࢸࢹࢺࢻࢼࢽࢾࢿࣀࣁࣂࣃࣄࣅࣆࣇࣈࣉঀঅআইঈউঊঋঌএঐওঔকখগঘঙচছজঝঞটঠডঢণতথদধনপফ",
     "বভমযরলশষসহঽৎড়ঢ়য়ৠৡ০১২৩৪৫৬৭৮৯ৰৱ৴৵৶৷৸৹ৼઅઆઇઈઉઊઋઌઍએઐઑઓઔકખગઘઙચછજઝઞ",
     "ટઠડઢણતથદધનપફબભમયરલળવશષસહઽૐૠૡ૦૧૨૩૪૫૬૭૮૯ૹஃஅஆஇஈஉஊஎஏஐஒஓஔகஙசஜஞடணத",
     "நனபமயரறலளழவஶஷஸஹௐ௦௧௨௩௪௫௬௭௮௯௰௱௲ಀಅಆಇಈಉಊಋಌಎಏಐಒಓಔಕಖಗಘಙಚಛಜಝಞಟಠಡಢಣತ",
     "ಥದಧನಪಫಬಭಮಯರಱಲಳವಶಷಸಹಽೝೞೠೡ೦೧೨೩೪೫೬೭೮೯ೱೲඅආඇඈඉඊඋඌඍඎඏඐඑඒඓඔඕඖකඛගඝඞඟ",
     "චඡජඣඤඥඦටඨඩඪණඬතථදධනඳපඵබභමඹයරලවශෂසහළෆ෦෧෨෩෪෫෬෭෮෯ກຂຄຆງຈຉຊຌຍຎຏຐຑຒ",
     "ຓດຕຖທຘນບປຜຝພຟຠມຢຣລວຨຩສຫຬອຮຯະາຳຽເແໂໃໄໆ໐໑໒໓໔໕໖໗໘໙ໜໝໞໟྈྉྊྋྌႀႁႎ႐",
     "႑႒႓႔႕႖႗႘႙ႠႡႢႣႤႥႦႧႨႩႪႫႬႭႮႯႰႱႲႳႴႵႶႷႸႹႺႻႼႽႾႿჀჁჂჃჄჅჇჍაბგდევზთიკლ",
     "მნოპჟრსტუფქღყშჩცძწჭხჯჰჱჲჳჴჵჶჷჸჹჺჼჽჾჿᆀᆁᆂᆃᆄᆅᆆᆇᆈᆉᆊᆋᆌᆍᆎᆏᆐᆑᆒᆓᆔᆕᆖᆗ",
     "ᆘᆙᆚᆛᆜᆝᆞᆟᆠᆡᆢᆣᆤᆥᆦᆧᆨᆩᆪᆫᆬᆭᆮᆯᆰᆱᆲᆳᆴᆵᆶᆷᆸᆹᆺᆻᆼᆽᆾᆿᇀᇁᇂᇃᇄᇅᇆᇇᇈᇉᇊᇋᇌᇍᇎᇏᇐᇑᇒᇓ",
     "ᇔᇕᇖᇗᇘᇙᇚᇛᇜᇝᇞᇟᇠᇡᇢᇣᇤᇥᇦᇧᇨᇩᇪᇫᇬᇭᇮᇯᇰᇱᇲᇳᇴᇵᇶᇷᇸᇹᇺᇻᇼᇽᇾᇿኀኁኂኃኄኅኆኇኈኊኋኌኍነኑኒ",
     "ናኔንኖኗኘኙኚኛኜኝኞኟአኡኢኣኤእኦኧከኩኪካኬክኮኯኰኲኳኴኵኸኹኺኻኼኽኾዀዂዃዄዅወዉዊዋዌውዎዏዐዑዒዓዔዕ",
     "ዖዘዙዚዛዜዝዞዟዠዡዢዣዤዥዦዧየዩዪያዬይዮዯደዱዲዳዴድዶዷዸዹዺዻዼዽዾዿᎀᎁᎂᎃᎄᎅᎆᎇᎈᎉᎊᎋᎌᎍᎎᎏᎠᎡᎢ",
     "ᎣᎤᎥᎦᎧᎨᎩᎪᎫᎬᎭᎮᎯᎰᎱᎲᎳᎴᎵᎶᎷᎸᎹᎺᎻᎼᎽᎾᎿᏀᏁᏂᏃᏄᏅᏆᏇᏈᏉᏊᏋᏌᏍᏎᏏᏐᏑᏒᏓᏔᏕᏖᏗᏘᏙᏚᏛᏜᏝᏞ",
     "ᏟᏠᏡᏢᏣᏤᏥᏦᏧᏨᏩᏪᏫᏬᏭᏮᏯᏰᏱᏲᏳᏴᏵᏸᏹᏺᏻᏼᏽᒀᒁᒂᒃᒄᒅᒆᒇᒈᒉᒊᒋᒌᒍᒎᒏᒐᒑᒒᒓᒔᒕᒖᒗᒘᒙᒚᒛᒜᒝᒞ",
     "ᒟᒠᒡᒢᒣᒤᒥᒦᒧᒨᒩᒪᒫᒬᒭᒮᒯᒰᒱᒲᒳᒴᒵᒶᒷᒸᒹᒺᒻᒼᒽᒾᒿᓀᓁᓂᓃᓄᓅᓆᓇᓈᓉᓊᓋᓌᓍᓎᓏᓐᓑᓒᓓᓔᓕᓖᓗᓘᓙᓚ",
     "ᓛᓜᓝᓞᓟᓠᓡᓢᓣᓤᓥᓦᓧᓨᓩᓪᓫᓬᓭᓮᓯᓰᓱᓲᓳᓴᓵᓶᓷᓸᓹᓺᓻᓼᓽᓾᓿᖀᖁᖂᖃᖄᖅᖆᖇᖈᖉᖊᖋᖌᖍᖎᖏᖐᖑᖒᖓᖔᖕᖖ",
     "ᖗᖘᖙᖚᖛᖜᖝᖞᖟᖠᖡᖢᖣᖤᖥᖦᖧᖨᖩᖪᖫᖬᖭᖮᖯᖰᖱᖲᖳᖴᖵᖶᖷᖸᖹᖺᖻᖼᖽᖾᖿᗀᗁᗂᗃᗄᗅᗆᗇᗈᗉᗊᗋᗌᗍᗎᗏᗐᗑᗒ",
     "ᗓᗔᗕᗖᗗᗘᗙᗚᗛᗜᗝᗞᗟᗠᗡᗢᗣᗤᗥᗦᗧᗨᗩᗪᗫᗬᗭᗮᗯᗰᗱᗲᗳᗴᗵᗶᗷᗸᗹᗺᗻᗼᗽᗾᗿᚁᚂᚃᚄᚅᚆᚇᚈᚉᚊᚋᚌᚍᚎᚏ",
     "ᚐᚑᚒᚓᚔᚕᚖᚗᚘᚙᚚᚠᚡᚢᚣᚤᚥᚦᚧᚨᚩᚪᚫᚬᚭᚮᚯᚰᚱᚲᚳᚴᚵᚶᚷᚸᚹᚺᚻᚼᚽᚾᚿᛀᛁᛂᛃᛄᛅᛆᛇᛈᛉᛊᛋᛌᛍᛎᛏᛐ",
     "ᛑᛒᛓᛔᛕᛖᛗᛘᛙᛚᛛᛜᛝᛞᛟᛠᛡᛢᛣᛤᛥᛦᛧᛨᛩᛪᛮᛯᛰᛱᛲᛳᛴᛵᛶᛷᛸកខគឃងចឆជឈញដឋឌឍណតថទធនបផព",
     "ភមយរលវឝឞសហឡអឣឤឥឦឧឨឩឪឫឬឭឮឯឰឱឲឳៗៜ០១២៣៤៥៦៧៨៩៰៱៲៳៴៵៶៷៸៹ᢀᢁᢂᢃᢄᢇᢈᢉᢊ",
     "ᢋᢌᢍᢎᢏᢐᢑᢒᢓᢔᢕᢖᢗᢘᢙᢚᢛᢜᢝᢞᢟᢠᢡᢢᢣᢤᢥᢦᢧᢨᢪᢰᢱᢲᢳᢴᢵᢶᢷᢸᢹᢺᢻᢼᢽᢾᢿᣀᣁᣂᣃᣄᣅᣆᣇᣈᣉᣊᣋᣌ",
     "ᣍᣎᣏᣐᣑᣒᣓᣔᣕᣖᣗᣘᣙᣚᣛᣜᣝᣞᣟᣠᣡᣢᣣᣤᣥᣦᣧᣨᣩᣪᣫᣬᣭᣮᣯᣰᣱᣲᣳᣴᣵᦀᦁᦂᦃᦄᦅᦆᦇᦈᦉᦊᦋᦌᦍᦎᦏᦐᦑᦒ",
     "ᦓᦔᦕᦖᦗᦘᦙᦚᦛᦜᦝᦞᦟᦠᦡᦢᦣᦤᦥᦦᦧᦨᦩᦪᦫᦰᦱᦲᦳᦴᦵᦶᦷᦸᦹᦺᦻᦼᦽᦾᦿᧀᧁᧂᧃᧄᧅᧆᧇᧈᧉ᧐᧑᧒᧓᧔᧕᧖᧗᧘",
     "᧙᧚᪀᪁᪂᪃᪄᪅᪆᪇᪈᪉᪐᪑᪒᪓᪔᪕᪖᪗᪘᪙ᪧᮃᮄᮅᮆᮇᮈᮉᮊᮋᮌᮍᮎᮏᮐᮑᮒᮓᮔᮕᮖᮗᮘᮙᮚᮛᮜᮝᮞᮟᮠᮮᮯ᮰᮱᮲᮳᮴",
     "᮵᮶᮷᮸᮹ᮺᮻᮼᮽᮾᮿᯀᯁᯂᯃᯄᯅᯆᯇᯈᯉᯊᯋᯌᯍᯎᯏᯐᯑᯒᯓᯔᯕᯖᯗᯘᯙᯚᯛᯜᯝᯞᯟᯠᯡᯢᯣᯤᯥᲀᲁᲂᲃᲄᲅᲆᲇᲈᲐᲑ",
     "ᲒᲓᲔᲕᲖᲗᲘᲙᲚᲛᲜᲝᲞᲟᲠᲡᲢᲣᲤᲥᲦᲧᲨᲩᲪᲫᲬᲭᲮᲯᲰᲱᲲᲳᲴᲵᲶᲷᲸᲹᲺᲽᲾᲿᳩᳪᳫᳬᳮᳯᳰᳱᳲᳳᳵᳶᳺᶀᶁᶂ",
     "ᶃᶄᶅᶆᶇᶈᶉᶊᶋᶌᶍᶎᶏᶐᶑᶒᶓᶔᶕᶖᶗᶘᶙᶚᶛᶜᶝᶞᶟᶠᶡᶢᶣᶤᶥᶦᶧᶨᶩᶪᶫᶬᶭᶮᶯᶰᶱᶲᶳᶴᶵᶶᶷᶸᶹᶺᶻᶼᶽᶾ",
     "ᶿẀẁẂẃẄẅẆẇẈẉẊẋẌẍẎẏẐẑẒẓẔẕẖẗẘẙẚẛẜẝẞẟẠạẢảẤấẦầẨẩẪẫẬậẮắẰằẲẳẴẵẶặẸẹẺ",
     "ẻẼẽẾếỀềỂểỄễỆệỈỉỊịỌọỎỏỐốỒồỔổỖỗỘộỚớỜờỞởỠỡỢợỤụỦủỨứỪừỬửỮữỰựỲỳỴỵỶ",
     "ỷỸỹỺỻỼỽỾỿᾀᾁᾂᾃᾄᾅᾆᾇᾈᾉᾊᾋᾌᾍᾎᾏᾐᾑᾒᾓᾔᾕᾖᾗᾘᾙᾚᾛᾜᾝᾞᾟᾠᾡᾢᾣᾤᾥᾦᾧᾨᾩᾪᾫᾬᾭᾮᾯᾰᾱᾲ",
     "ᾳᾴᾶᾷᾸᾹᾺΆᾼιῂῃῄῆῇῈΈῊΉῌῐῑῒΐῖῗῘῙῚΊῠῡῢΰῤῥῦῧῨῩῪΎῬῲῳῴῶῷῸΌῺΏῼ₀₁₂₃₄₅₆",
     "₇₈₉ₐₑₒₓₔₕₖₗₘₙₚₛₜↀↁↂↃↄↅↆↇↈ↉⒀⒁⒂⒃⒄⒅⒆⒇⒈⒉⒊⒋⒌⒍⒎⒏⒐⒑⒒⒓⒔⒕⒖⒗⒘⒙⒚⒛⓪⓫⓬⓭⓮⓯",
     "⓰⓱⓲⓳⓴⓵⓶⓷⓸⓹⓺⓻⓼⓽⓾⓿➀➁➂➃➄➅➆➇➈➉➊➋➌➍➎➏➐➑➒➓ⲀⲁⲂⲃⲄⲅⲆⲇⲈⲉⲊⲋⲌⲍⲎⲏⲐⲑⲒⲓⲔⲕⲖⲗ",
     "ⲘⲙⲚⲛⲜⲝⲞⲟⲠⲡⲢⲣⲤⲥⲦⲧⲨⲩⲪⲫⲬⲭⲮⲯⲰⲱⲲⲳⲴⲵⲶⲷⲸⲹⲺⲻⲼⲽⲾⲿⳀⳁⳂⳃⳄⳅⳆⳇⳈⳉⳊⳋⳌⳍⳎⳏⳐⳑⳒⳓ",
     "ⳔⳕⳖⳗⳘⳙⳚⳛⳜⳝⳞⳟⳠⳡⳢⳣⳤⳫⳬⳭⳮⳲⳳ⳽ⶀⶁⶂⶃⶄⶅⶆⶇⶈⶉⶊⶋⶌⶍⶎⶏⶐⶑⶒⶓⶔⶕⶖⶠⶡⶢⶣⶤⶥⶦⶨⶩⶪⶫⶬⶭ",
     "ⶮⶰⶱⶲⶳⶴⶵⶶⶸⶹⶺⶻⶼⶽⶾⷀⷁⷂⷃⷄⷅⷆⷈⷉⷊⷋⷌⷍⷎⷐⷑⷒⷓⷔⷕⷖⷘⷙⷚⷛⷜⷝⷞむめもゃやゅゆょよらりるれろゎわゐ",
     "ゑをんゔゕゖゝゞゟァアィイゥウェエォオカガキギクグケゲコゴサザシジスズセゼソゾタダチヂッツヅテデトドナニヌネノハバパヒビ",
     "ピフブプヘベペホボポマミムメモャヤュユョヨラリルレロヮワヰヱヲンヴヵヶヷヸヹヺーヽヾヿㆀㆁㆂㆃㆄㆅㆆㆇㆈㆉㆊㆋㆌㆍㆎ㆒㆓",
     "㆔㆕ㆠㆡㆢㆣㆤㆥㆦㆧㆨㆩㆪㆫㆬㆭㆮㆯㆰㆱㆲㆳㆴㆵㆶㆷㆸㆹㆺㆻㆼㆽㆾㆿㇰㇱㇲㇳㇴㇵㇶㇷㇸㇹㇺㇻㇼㇽㇾㇿ㊀㊁㊂㊃㊄㊅㊆㊇㊈㊉",
     "㊱㊲㊳㊴㊵㊶㊷㊸㊹㊺㊻㊼㊽㊾㊿㒀㒁㒂㒃㒄㒅㒆㒇㒈㒉㒊㒋㒌㒍㒎㒏㒐㒑㒒㒓㒔㒕㒖㒗㒘㒙㒚㒛㒜㒝㒞㒟㒠㒡㒢㒣㒤㒥㒦㒧㒨㒩㒪㒫㒬",
     "㒭㒮㒯㒰㒱㒲㒳㒴㒵㒶㒷㒸㒹㒺㒻㒼㒽㒾㒿㓀㓁㓂㓃㓄㓅㓆㓇㓈㓉㓊㓋㓌㓍㓎㓏㓐㓑㓒㓓㓔㓕㓖㓗㓘㓙㓚㓛㓜㓝㓞㓟㓠㓡㓢㓣㓤㓥㓦㓧㓨",
     "㓩㓪㓫㓬㓭㓮㓯㓰㓱㓲㓳㓴㓵㓶㓷㓸㓹㓺㓻㓼㓽㓾㓿㖀㖁㖂㖃㖄㖅㖆㖇㖈㖉㖊㖋㖌㖍㖎㖏㖐㖑㖒㖓㖔㖕㖖㖗㖘㖙㖚㖛㖜㖝㖞㖟㖠㖡㖢㖣㖤",
     "㖥㖦㖧㖨㖩㖪㖫㖬㖭㖮㖯㖰㖱㖲㖳㖴㖵㖶㖷㖸㖹㖺㖻㖼㖽㖾㖿㗀㗁㗂㗃㗄㗅㗆㗇㗈㗉㗊㗋㗌㗍㗎㗏㗐㗑㗒㗓㗔㗕㗖㗗㗘㗙㗚㗛㗜㗝㗞㗟㗠",
     "㗡㗢㗣㗤㗥㗦㗧㗨㗩㗪㗫㗬㗭㗮㗯㗰㗱㗲㗳㗴㗵㗶㗷㗸㗹㗺㗻㗼㗽㗾㗿㚀㚁㚂㚃㚄㚅㚆㚇㚈㚉㚊㚋㚌㚍㚎㚏㚐㚑㚒㚓㚔㚕㚖㚗㚘㚙㚚㚛㚜",
     "㚝㚞㚟㚠㚡㚢㚣㚤㚥㚦㚧㚨㚩㚪㚫㚬㚭㚮㚯㚰㚱㚲㚳㚴㚵㚶㚷㚸㚹㚺㚻㚼㚽㚾㚿㛀㛁㛂㛃㛄㛅㛆㛇㛈㛉㛊㛋㛌㛍㛎㛏㛐㛑㛒㛓㛔㛕㛖㛗㛘",
     "㛙㛚㛛㛜㛝㛞㛟㛠㛡㛢㛣㛤㛥㛦㛧㛨㛩㛪㛫㛬㛭㛮㛯㛰㛱㛲㛳㛴㛵㛶㛷㛸㛹㛺㛻㛼㛽㛾㛿㞀㞁㞂㞃㞄㞅㞆㞇㞈㞉㞊㞋㞌㞍㞎㞏㞐㞑㞒㞓㞔",
     "㞕㞖㞗㞘㞙㞚㞛㞜㞝㞞㞟㞠㞡㞢㞣㞤㞥㞦㞧㞨㞩㞪㞫㞬㞭㞮㞯㞰㞱㞲㞳㞴㞵㞶㞷㞸㞹㞺㞻㞼㞽㞾㞿㟀㟁㟂㟃㟄㟅㟆㟇㟈㟉㟊㟋㟌㟍㟎㟏㟐",
     "㟑㟒㟓㟔㟕㟖㟗㟘㟙㟚㟛㟜㟝㟞㟟㟠㟡㟢㟣㟤㟥㟦㟧㟨㟩㟪㟫㟬㟭㟮㟯㟰㟱㟲㟳㟴㟵㟶㟷㟸㟹㟺㟻㟼㟽㟾㟿㢀㢁㢂㢃㢄㢅㢆㢇㢈㢉㢊㢋㢌",
     "㢍㢎㢏㢐㢑㢒㢓㢔㢕㢖㢗㢘㢙㢚㢛㢜㢝㢞㢟㢠㢡㢢㢣㢤㢥㢦㢧㢨㢩㢪㢫㢬㢭㢮㢯㢰㢱㢲㢳㢴㢵㢶㢷㢸㢹㢺㢻㢼㢽㢾㢿㣀㣁㣂㣃㣄㣅㣆㣇㣈",
     "㣉㣊㣋㣌㣍㣎㣏㣐㣑㣒㣓㣔㣕㣖㣗㣘㣙㣚㣛㣜㣝㣞㣟㣠㣡㣢㣣㣤㣥㣦㣧㣨㣩㣪㣫㣬㣭㣮㣯㣰㣱㣲㣳㣴㣵㣶㣷㣸㣹㣺㣻㣼㣽㣾㣿㦀㦁㦂㦃㦄",
     "㦅㦆㦇㦈㦉㦊㦋㦌㦍㦎㦏㦐㦑㦒㦓㦔㦕㦖㦗㦘㦙㦚㦛㦜㦝㦞㦟㦠㦡㦢㦣㦤㦥㦦㦧㦨㦩㦪㦫㦬㦭㦮㦯㦰㦱㦲㦳㦴㦵㦶㦷㦸㦹㦺㦻㦼㦽㦾㦿㧀",
     "㧁㧂㧃㧄㧅㧆㧇㧈㧉㧊㧋㧌㧍㧎㧏㧐㧑㧒㧓㧔㧕㧖㧗㧘㧙㧚㧛㧜㧝㧞㧟㧠㧡㧢㧣㧤㧥㧦㧧㧨㧩㧪㧫㧬㧭㧮㧯㧰㧱㧲㧳㧴㧵㧶㧷㧸㧹㧺㧻㧼",
     "㧽㧾㧿㪀㪁㪂㪃㪄㪅㪆㪇㪈㪉㪊㪋㪌㪍㪎㪏㪐㪑㪒㪓㪔㪕㪖㪗㪘㪙㪚㪛㪜㪝㪞㪟㪠㪡㪢㪣㪤㪥㪦㪧㪨㪩㪪㪫㪬㪭㪮㪯㪰㪱㪲㪳㪴㪵㪶㪷㪸",
     "㪹㪺㪻㪼㪽㪾㪿㫀㫁㫂㫃㫄㫅㫆㫇㫈㫉㫊㫋㫌㫍㫎㫏㫐㫑㫒㫓㫔㫕㫖㫗㫘㫙㫚㫛㫜㫝㫞㫟㫠㫡㫢㫣㫤㫥㫦㫧㫨㫩㫪㫫㫬㫭㫮㫯㫰㫱㫲㫳㫴",
     "㫵㫶㫷㫸㫹㫺㫻㫼㫽㫾㫿㮀㮁㮂㮃㮄㮅㮆㮇㮈㮉㮊㮋㮌㮍㮎㮏㮐㮑㮒㮓㮔㮕㮖㮗㮘㮙㮚㮛㮜㮝㮞㮟㮠㮡㮢㮣㮤㮥㮦㮧㮨㮩㮪㮫㮬㮭㮮㮯㮰",
     "㮱㮲㮳㮴㮵㮶㮷㮸㮹㮺㮻㮼㮽㮾㮿㯀㯁㯂㯃㯄㯅㯆㯇㯈㯉㯊㯋㯌㯍㯎㯏㯐㯑㯒㯓㯔㯕㯖㯗㯘㯙㯚㯛㯜㯝㯞㯟㯠㯡㯢㯣㯤㯥㯦㯧㯨㯩㯪㯫㯬",
     "㯭㯮㯯㯰㯱㯲㯳㯴㯵㯶㯷㯸㯹㯺㯻㯼㯽㯾㯿㲀㲁㲂㲃㲄㲅㲆㲇㲈㲉㲊㲋㲌㲍㲎㲏㲐㲑㲒㲓㲔㲕㲖㲗㲘㲙㲚㲛㲜㲝㲞㲟㲠㲡㲢㲣㲤㲥㲦㲧㲨",
     "㲩㲪㲫㲬㲭㲮㲯㲰㲱㲲㲳㲴㲵㲶㲷㲸㲹㲺㲻㲼㲽㲾㲿㳀㳁㳂㳃㳄㳅㳆㳇㳈㳉㳊㳋㳌㳍㳎㳏㳐㳑㳒㳓㳔㳕㳖㳗㳘㳙㳚㳛㳜㳝㳞㳟㳠㳡㳢㳣㳤",
     "㳥㳦㳧㳨㳩㳪㳫㳬㳭㳮㳯㳰㳱㳲㳳㳴㳵㳶㳷㳸㳹㳺㳻㳼㳽㳾㳿㶀㶁㶂㶃㶄㶅㶆㶇㶈㶉㶊㶋㶌㶍㶎㶏㶐㶑㶒㶓㶔㶕㶖㶗㶘㶙㶚㶛㶜㶝㶞㶟㶠",
     "㶡㶢㶣㶤㶥㶦㶧㶨㶩㶪㶫㶬㶭㶮㶯㶰㶱㶲㶳㶴㶵㶶㶷㶸㶹㶺㶻㶼㶽㶾㶿㷀㷁㷂㷃㷄㷅㷆㷇㷈㷉㷊㷋㷌㷍㷎㷏㷐㷑㷒㷓㷔㷕㷖㷗㷘㷙㷚㷛㷜",
     "㷝㷞㷟㷠㷡㷢㷣㷤㷥㷦㷧㷨㷩㷪㷫㷬㷭㷮㷯㷰㷱㷲㷳㷴㷵㷶㷷㷸㷹㷺㷻㷼㷽㷾㷿㺀㺁㺂㺃㺄㺅㺆㺇㺈㺉㺊㺋㺌㺍㺎㺏㺐㺑㺒㺓㺔㺕㺖㺗㺘",
     "㺙㺚㺛㺜㺝㺞㺟㺠㺡㺢㺣㺤㺥㺦㺧㺨㺩㺪㺫㺬㺭㺮㺯㺰㺱㺲㺳㺴㺵㺶㺷㺸㺹㺺㺻㺼㺽㺾㺿㻀㻁㻂㻃㻄㻅㻆㻇㻈㻉㻊㻋㻌㻍㻎㻏㻐㻑㻒㻓㻔",
     "㻕㻖㻗㻘㻙㻚㻛㻜㻝㻞㻟㻠㻡㻢㻣㻤㻥㻦㻧㻨㻩㻪㻫㻬㻭㻮㻯㻰㻱㻲㻳㻴㻵㻶㻷㻸㻹㻺㻻㻼㻽㻾㻿㾀㾁㾂㾃㾄㾅㾆㾇㾈㾉㾊㾋㾌㾍㾎㾏㾐",
     "㾑㾒㾓㾔㾕㾖㾗㾘㾙㾚㾛㾜㾝㾞㾟㾠㾡㾢㾣㾤㾥㾦㾧㾨㾩㾪㾫㾬㾭㾮㾯㾰㾱㾲㾳㾴㾵㾶㾷㾸㾹㾺㾻㾼㾽㾾㾿㿀㿁㿂㿃㿄㿅㿆㿇㿈㿉㿊㿋㿌",
     "㿍㿎㿏㿐㿑㿒㿓㿔㿕㿖㿗㿘㿙㿚㿛㿜㿝㿞㿟㿠㿡㿢㿣㿤㿥㿦㿧㿨㿩㿪㿫㿬㿭㿮㿯㿰㿱㿲㿳㿴㿵㿶㿷㿸㿹㿺㿻㿼㿽㿾㿿䂀䂁䂂䂃䂄䂅䂆䂇䂈",
     "䂉䂊䂋䂌䂍䂎䂏䂐䂑䂒䂓䂔䂕䂖䂗䂘䂙䂚䂛䂜䂝䂞䂟䂠䂡䂢䂣䂤䂥䂦䂧䂨䂩䂪䂫䂬䂭䂮䂯䂰䂱䂲䂳䂴䂵䂶䂷䂸䂹䂺䂻䂼䂽䂾䂿䃀䃁䃂䃃䃄",
     "䃅䃆䃇䃈䃉䃊䃋䃌䃍䃎䃏䃐䃑䃒䃓䃔䃕䃖䃗䃘䃙䃚䃛䃜䃝䃞䃟䃠䃡䃢䃣䃤䃥䃦䃧䃨䃩䃪䃫䃬䃭䃮䃯䃰䃱䃲䃳䃴䃵䃶䃷䃸䃹䃺䃻䃼䃽䃾䃿䆀",
     "䆁䆂䆃䆄䆅䆆䆇䆈䆉䆊䆋䆌䆍䆎䆏䆐䆑䆒䆓䆔䆕䆖䆗䆘䆙䆚䆛䆜䆝䆞䆟䆠䆡䆢䆣䆤䆥䆦䆧䆨䆩䆪䆫䆬䆭䆮䆯䆰䆱䆲䆳䆴䆵䆶䆷䆸䆹䆺䆻䆼",
     "䆽䆾䆿䇀䇁䇂䇃䇄䇅䇆䇇䇈䇉䇊䇋䇌䇍䇎䇏䇐䇑䇒䇓䇔䇕䇖䇗䇘䇙䇚䇛䇜䇝䇞䇟䇠䇡䇢䇣䇤䇥䇦䇧䇨䇩䇪䇫䇬䇭䇮䇯䇰䇱䇲䇳䇴䇵䇶䇷䇸",
     "䇹䇺䇻䇼䇽䇾䇿䊀䊁䊂䊃䊄䊅䊆䊇䊈䊉䊊䊋䊌䊍䊎䊏䊐䊑䊒䊓䊔䊕䊖䊗䊘䊙䊚䊛䊜䊝䊞䊟䊠䊡䊢䊣䊤䊥䊦䊧䊨䊩䊪䊫䊬䊭䊮䊯䊰䊱䊲䊳䊴",
     "䊵䊶䊷䊸䊹䊺䊻䊼䊽䊾䊿䋀䋁䋂䋃䋄䋅䋆䋇䋈䋉䋊䋋䋌䋍䋎䋏䋐䋑䋒䋓䋔䋕䋖䋗䋘䋙䋚䋛䋜䋝䋞䋟䋠䋡䋢䋣䋤䋥䋦䋧䋨䋩䋪䋫䋬䋭䋮䋯䋰",
     "䋱䋲䋳䋴䋵䋶䋷䋸䋹䋺䋻䋼䋽䋾䋿䎀䎁䎂䎃䎄䎅䎆䎇䎈䎉䎊䎋䎌䎍䎎䎏䎐䎑䎒䎓䎔䎕䎖䎗䎘䎙䎚䎛䎜䎝䎞䎟䎠䎡䎢䎣䎤䎥䎦䎧䎨䎩䎪䎫䎬",
     "䎭䎮䎯䎰䎱䎲䎳䎴䎵䎶䎷䎸䎹䎺䎻䎼䎽䎾䎿䏀䏁䏂䏃䏄䏅䏆䏇䏈䏉䏊䏋䏌䏍䏎䏏䏐䏑䏒䏓䏔䏕䏖䏗䏘䏙䏚䏛䏜䏝䏞䏟䏠䏡䏢䏣䏤䏥䏦䏧䏨",
     "䏩䏪䏫䏬䏭䏮䏯䏰䏱䏲䏳䏴䏵䏶䏷䏸䏹䏺䏻䏼䏽䏾䏿䒀䒁䒂䒃䒄䒅䒆䒇䒈䒉䒊䒋䒌䒍䒎䒏䒐䒑䒒䒓䒔䒕䒖䒗䒘䒙䒚䒛䒜䒝䒞䒟䒠䒡䒢䒣䒤",
     "䒥䒦䒧䒨䒩䒪䒫䒬䒭䒮䒯䒰䒱䒲䒳䒴䒵䒶䒷䒸䒹䒺䒻䒼䒽䒾䒿䓀䓁䓂䓃䓄䓅䓆䓇䓈䓉䓊䓋䓌䓍䓎䓏䓐䓑䓒䓓䓔䓕䓖䓗䓘䓙䓚䓛䓜䓝䓞䓟䓠",
     "䓡䓢䓣䓤䓥䓦䓧䓨䓩䓪䓫䓬䓭䓮䓯䓰䓱䓲䓳䓴䓵䓶䓷䓸䓹䓺䓻䓼䓽䓾䓿䖀䖁䖂䖃䖄䖅䖆䖇䖈䖉䖊䖋䖌䖍䖎䖏䖐䖑䖒䖓䖔䖕䖖䖗䖘䖙䖚䖛䖜",
     "䖝䖞䖟䖠䖡䖢䖣䖤䖥䖦䖧䖨䖩䖪䖫䖬䖭䖮䖯䖰䖱䖲䖳䖴䖵䖶䖷䖸䖹䖺䖻䖼䖽䖾䖿䗀䗁䗂䗃䗄䗅䗆䗇䗈䗉䗊䗋䗌䗍䗎䗏䗐䗑䗒䗓䗔䗕䗖䗗䗘",
     "䗙䗚䗛䗜䗝䗞䗟䗠䗡䗢䗣䗤䗥䗦䗧䗨䗩䗪䗫䗬䗭䗮䗯䗰䗱䗲䗳䗴䗵䗶䗷䗸䗹䗺䗻䗼䗽䗾䗿䚀䚁䚂䚃䚄䚅䚆䚇䚈䚉䚊䚋䚌䚍䚎䚏䚐䚑䚒䚓䚔",
     "䚕䚖䚗䚘䚙䚚䚛䚜䚝䚞䚟䚠䚡䚢䚣䚤䚥䚦䚧䚨䚩䚪䚫䚬䚭䚮䚯䚰䚱䚲䚳䚴䚵䚶䚷䚸䚹䚺䚻䚼䚽䚾䚿䛀䛁䛂䛃䛄䛅䛆䛇䛈䛉䛊䛋䛌䛍䛎䛏䛐",
     "䛑䛒䛓䛔䛕䛖䛗䛘䛙䛚䛛䛜䛝䛞䛟䛠䛡䛢䛣䛤䛥䛦䛧䛨䛩䛪䛫䛬䛭䛮䛯䛰䛱䛲䛳䛴䛵䛶䛷䛸䛹䛺䛻䛼䛽䛾䛿䞀䞁䞂䞃䞄䞅䞆䞇䞈䞉䞊䞋䞌",
     "䞍䞎䞏䞐䞑䞒䞓䞔䞕䞖䞗䞘䞙䞚䞛䞜䞝䞞䞟䞠䞡䞢䞣䞤䞥䞦䞧䞨䞩䞪䞫䞬䞭䞮䞯䞰䞱䞲䞳䞴䞵䞶䞷䞸䞹䞺䞻䞼䞽䞾䞿䟀䟁䟂䟃䟄䟅䟆䟇䟈",
     "䟉䟊䟋䟌䟍䟎䟏䟐䟑䟒䟓䟔䟕䟖䟗䟘䟙䟚䟛䟜䟝䟞䟟䟠䟡䟢䟣䟤䟥䟦䟧䟨䟩䟪䟫䟬䟭䟮䟯䟰䟱䟲䟳䟴䟵䟶䟷䟸䟹䟺䟻䟼䟽䟾䟿䢀䢁䢂䢃䢄",
     "䢅䢆䢇䢈䢉䢊䢋䢌䢍䢎䢏䢐䢑䢒䢓䢔䢕䢖䢗䢘䢙䢚䢛䢜䢝䢞䢟䢠䢡䢢䢣䢤䢥䢦䢧䢨䢩䢪䢫䢬䢭䢮䢯䢰䢱䢲䢳䢴䢵䢶䢷䢸䢹䢺䢻䢼䢽䢾䢿䣀",
     "䣁䣂䣃䣄䣅䣆䣇䣈䣉䣊䣋䣌䣍䣎䣏䣐䣑䣒䣓䣔䣕䣖䣗䣘䣙䣚䣛䣜䣝䣞䣟䣠䣡䣢䣣䣤䣥䣦䣧䣨䣩䣪䣫䣬䣭䣮䣯䣰䣱䣲䣳䣴䣵䣶䣷䣸䣹䣺䣻䣼",
     "䣽䣾䣿䦀䦁䦂䦃䦄䦅䦆䦇䦈䦉䦊䦋䦌䦍䦎䦏䦐䦑䦒䦓䦔䦕䦖䦗䦘䦙䦚䦛䦜䦝䦞䦟䦠䦡䦢䦣䦤䦥䦦䦧䦨䦩䦪䦫䦬䦭䦮䦯䦰䦱䦲䦳䦴䦵䦶䦷䦸",
     "䦹䦺䦻䦼䦽䦾䦿䧀䧁䧂䧃䧄䧅䧆䧇䧈䧉䧊䧋䧌䧍䧎䧏䧐䧑䧒䧓䧔䧕䧖䧗䧘䧙䧚䧛䧜䧝䧞䧟䧠䧡䧢䧣䧤䧥䧦䧧䧨䧩䧪䧫䧬䧭䧮䧯䧰䧱䧲䧳䧴",
     "䧵䧶䧷䧸䧹䧺䧻䧼䧽䧾䧿䪀䪁䪂䪃䪄䪅䪆䪇䪈䪉䪊䪋䪌䪍䪎䪏䪐䪑䪒䪓䪔䪕䪖䪗䪘䪙䪚䪛䪜䪝䪞䪟䪠䪡䪢䪣䪤䪥䪦䪧䪨䪩䪪䪫䪬䪭䪮䪯䪰",
     "䪱䪲䪳䪴䪵䪶䪷䪸䪹䪺䪻䪼䪽䪾䪿䫀䫁䫂䫃䫄䫅䫆䫇䫈䫉䫊䫋䫌䫍䫎䫏䫐䫑䫒䫓䫔䫕䫖䫗䫘䫙䫚䫛䫜䫝䫞䫟䫠䫡䫢䫣䫤䫥䫦䫧䫨䫩䫪䫫䫬",
     "䫭䫮䫯䫰䫱䫲䫳䫴䫵䫶䫷䫸䫹䫺䫻䫼䫽䫾䫿䮀䮁䮂䮃䮄䮅䮆䮇䮈䮉䮊䮋䮌䮍䮎䮏䮐䮑䮒䮓䮔䮕䮖䮗䮘䮙䮚䮛䮜䮝䮞䮟䮠䮡䮢䮣䮤䮥䮦䮧䮨",
     "䮩䮪䮫䮬䮭䮮䮯䮰䮱䮲䮳䮴䮵䮶䮷䮸䮹䮺䮻䮼䮽䮾䮿䯀䯁䯂䯃䯄䯅䯆䯇䯈䯉䯊䯋䯌䯍䯎䯏䯐䯑䯒䯓䯔䯕䯖䯗䯘䯙䯚䯛䯜䯝䯞䯟䯠䯡䯢䯣䯤",
     "䯥䯦䯧䯨䯩䯪䯫䯬䯭䯮䯯䯰䯱䯲䯳䯴䯵䯶䯷䯸䯹䯺䯻䯼䯽䯾䯿䲀䲁䲂䲃䲄䲅䲆䲇䲈䲉䲊䲋䲌䲍䲎䲏䲐䲑䲒䲓䲔䲕䲖䲗䲘䲙䲚䲛䲜䲝䲞䲟䲠",
     "䲡䲢䲣䲤䲥䲦䲧䲨䲩䲪䲫䲬䲭䲮䲯䲰䲱䲲䲳䲴䲵䲶䲷䲸䲹䲺䲻䲼䲽䲾䲿䳀䳁䳂䳃䳄䳅䳆䳇䳈䳉䳊䳋䳌䳍䳎䳏䳐䳑䳒䳓䳔䳕䳖䳗䳘䳙䳚䳛䳜",
     "䳝䳞䳟䳠䳡䳢䳣䳤䳥䳦䳧䳨䳩䳪䳫䳬䳭䳮䳯䳰䳱䳲䳳䳴䳵䳶䳷䳸䳹䳺䳻䳼䳽䳾䳿䶀䶁䶂䶃䶄䶅䶆䶇䶈䶉䶊䶋䶌䶍䶎䶏䶐䶑䶒䶓䶔䶕䶖䶗䶘",
     "䶙䶚䶛䶜䶝䶞䶟䶠䶡䶢䶣䶤䶥䶦䶧䶨䶩䶪䶫䶬䶭䶮䶯䶰䶱䶲䶳䶴䶵䶶䶷䶸䶹䶺䶻䶼䶽䶾䶿亀亁亂亃亄亅了亇予争亊事二亍于亏亐云互亓五",
     "井亖亗亘亙亚些亜亝亞亟亠亡亢亣交亥亦产亨亩亪享京亭亮亯亰亱亲亳亴亵亶亷亸亹人亻亼亽亾亿什仁仂仃仄仅仆仇仈仉今介仌仍从仏仐",
     "仑仒仓仔仕他仗付仙仚仛仜仝仞仟仠仡仢代令以仦仧仨仩仪仫们仭仮仯仰仱仲仳仴仵件价仸仹仺任仼份仾仿侀侁侂侃侄侅來侇侈侉侊例侌",
     "侍侎侏侐侑侒侓侔侕侖侗侘侙侚供侜依侞侟侠価侢侣侤侥侦侧侨侩侪侫侬侭侮侯侰侱侲侳侴侵侶侷侸侹侺侻侼侽侾便俀俁係促俄俅俆俇俈",
     "俉俊俋俌俍俎俏俐俑俒俓俔俕俖俗俘俙俚俛俜保俞俟俠信俢俣俤俥俦俧俨俩俪俫俬俭修俯俰俱俲俳俴俵俶俷俸俹俺俻俼俽俾俿傀傁傂傃傄",
     "傅傆傇傈傉傊傋傌傍傎傏傐傑傒傓傔傕傖傗傘備傚傛傜傝傞傟傠傡傢傣傤傥傦傧储傩傪傫催傭傮傯傰傱傲傳傴債傶傷傸傹傺傻傼傽傾傿僀",
     "僁僂僃僄僅僆僇僈僉僊僋僌働僎像僐僑僒僓僔僕僖僗僘僙僚僛僜僝僞僟僠僡僢僣僤僥僦僧僨僩僪僫僬僭僮僯僰僱僲僳僴僵僶僷僸價僺僻僼",
     "僽僾僿冀冁冂冃冄内円冇冈冉冊冋册再冎冏冐冑冒冓冔冕冖冗冘写冚军农冝冞冟冠冡冢冣冤冥冦冧冨冩冪冫冬冭冮冯冰冱冲决冴况冶冷冸",
     "冹冺冻冼冽冾冿净凁凂凃凄凅准凇凈凉凊凋凌凍凎减凐凑凒凓凔凕凖凗凘凙凚凛凜凝凞凟几凡凢凣凤凥処凧凨凩凪凫凬凭凮凯凰凱凲凳凴",
     "凵凶凷凸凹出击凼函凾凿劀劁劂劃劄劅劆劇劈劉劊劋劌劍劎劏劐劑劒劓劔劕劖劗劘劙劚力劜劝办功加务劢劣劤劥劦劧动助努劫劬劭劮劯劰",
     "励劲劳労劵劶劷劸効劺劻劼劽劾势勀勁勂勃勄勅勆勇勈勉勊勋勌勍勎勏勐勑勒勓勔動勖勗勘務勚勛勜勝勞募勠勡勢勣勤勥勦勧勨勩勪勫勬",
     "勭勮勯勰勱勲勳勴勵勶勷勸勹勺勻勼勽勾勿厀厁厂厃厄厅历厇厈厉厊压厌厍厎厏厐厑厒厓厔厕厖厗厘厙厚厛厜厝厞原厠厡厢厣厤厥厦厧厨",
     "厩厪厫厬厭厮厯厰厱厲厳厴厵厶厷厸厹厺去厼厽厾县叀叁参參叄叅叆叇又叉及友双反収叏叐发叒叓叔叕取受变叙叚叛叜叝叞叟叠叡叢口古",
     "句另叧叨叩只叫召叭叮可台叱史右叴叵叶号司叹叺叻叼叽叾叿咀咁咂咃咄咅咆咇咈咉咊咋和咍咎咏咐咑咒咓咔咕咖咗咘咙咚咛咜咝咞咟咠",
     "咡咢咣咤咥咦咧咨咩咪咫咬咭咮咯咰咱咲咳咴咵咶咷咸咹咺咻咼咽咾咿哀品哂哃哄哅哆哇哈哉哊哋哌响哎哏哐哑哒哓哔哕哖哗哘哙哚哛哜",
     "哝哞哟哠員哢哣哤哥哦哧哨哩哪哫哬哭哮哯哰哱哲哳哴哵哶哷哸哹哺哻哼哽哾哿喀喁喂喃善喅喆喇喈喉喊喋喌喍喎喏喐喑喒喓喔喕喖喗喘",
     "喙喚喛喜喝喞喟喠喡喢喣喤喥喦喧喨喩喪喫喬喭單喯喰喱喲喳喴喵営喷喸喹喺喻喼喽喾喿嗀嗁嗂嗃嗄嗅嗆嗇嗈嗉嗊嗋嗌嗍嗎嗏嗐嗑嗒嗓嗔",
     "嗕嗖嗗嗘嗙嗚嗛嗜嗝嗞嗟嗠嗡嗢嗣嗤嗥嗦嗧嗨嗩嗪嗫嗬嗭嗮嗯嗰嗱嗲嗳嗴嗵嗶嗷嗸嗹嗺嗻嗼嗽嗾嗿嚀嚁嚂嚃嚄嚅嚆嚇嚈嚉嚊嚋嚌嚍嚎嚏嚐",
     "嚑嚒嚓嚔嚕嚖嚗嚘嚙嚚嚛嚜嚝嚞嚟嚠嚡嚢嚣嚤嚥嚦嚧嚨嚩嚪嚫嚬嚭嚮嚯嚰嚱嚲嚳嚴嚵嚶嚷嚸嚹嚺嚻嚼嚽嚾嚿囀囁囂囃囄囅囆囇囈囉囊囋囌",
     "囍囎囏囐囑囒囓囔囕囖囗囘囙囚四囜囝回囟因囡团団囤囥囦囧囨囩囪囫囬园囮囯困囱囲図围囵囶囷囸囹固囻囼国图囿垀垁垂垃垄垅垆垇垈",
     "垉垊型垌垍垎垏垐垑垒垓垔垕垖垗垘垙垚垛垜垝垞垟垠垡垢垣垤垥垦垧垨垩垪垫垬垭垮垯垰垱垲垳垴垵垶垷垸垹垺垻垼垽垾垿埀埁埂埃埄",
     "埅埆埇埈埉埊埋埌埍城埏埐埑埒埓埔埕埖埗埘埙埚埛埜埝埞域埠埡埢埣埤埥埦埧埨埩埪埫埬埭埮埯埰埱埲埳埴埵埶執埸培基埻埼埽埾埿墀",
     "墁墂境墄墅墆墇墈墉墊墋墌墍墎墏墐墑墒墓墔墕墖増墘墙墚墛墜墝增墟墠墡墢墣墤墥墦墧墨墩墪墫墬墭墮墯墰墱墲墳墴墵墶墷墸墹墺墻墼",
     "墽墾墿壀壁壂壃壄壅壆壇壈壉壊壋壌壍壎壏壐壑壒壓壔壕壖壗壘壙壚壛壜壝壞壟壠壡壢壣壤壥壦壧壨壩壪士壬壭壮壯声壱売壳壴壵壶壷壸",
     "壹壺壻壼壽壾壿妀妁如妃妄妅妆妇妈妉妊妋妌妍妎妏妐妑妒妓妔妕妖妗妘妙妚妛妜妝妞妟妠妡妢妣妤妥妦妧妨妩妪妫妬妭妮妯妰妱妲妳妴",
     "妵妶妷妸妹妺妻妼妽妾妿姀姁姂姃姄姅姆姇姈姉姊始姌姍姎姏姐姑姒姓委姕姖姗姘姙姚姛姜姝姞姟姠姡姢姣姤姥姦姧姨姩姪姫姬姭姮姯姰",
     "姱姲姳姴姵姶姷姸姹姺姻姼姽姾姿媀媁媂媃媄媅媆媇媈媉媊媋媌媍媎媏媐媑媒媓媔媕媖媗媘媙媚媛媜媝媞媟媠媡媢媣媤媥媦媧媨媩媪媫媬",
     "媭媮媯媰媱媲媳媴媵媶媷媸媹媺媻媼媽媾媿嫀嫁嫂嫃嫄嫅嫆嫇嫈嫉嫊嫋嫌嫍嫎嫏嫐嫑嫒嫓嫔嫕嫖嫗嫘嫙嫚嫛嫜嫝嫞嫟嫠嫡嫢嫣嫤嫥嫦嫧嫨",
     "嫩嫪嫫嫬嫭嫮嫯嫰嫱嫲嫳嫴嫵嫶嫷嫸嫹嫺嫻嫼嫽嫾嫿宀宁宂它宄宅宆宇守安宊宋完宍宎宏宐宑宒宓宔宕宖宗官宙定宛宜宝实実宠审客宣室",
     "宥宦宧宨宩宪宫宬宭宮宯宰宱宲害宴宵家宷宸容宺宻宼宽宾宿寀寁寂寃寄寅密寇寈寉寊寋富寍寎寏寐寑寒寓寔寕寖寗寘寙寚寛寜寝寞察寠",
     "寡寢寣寤寥實寧寨審寪寫寬寭寮寯寰寱寲寳寴寵寶寷寸对寺寻导寽対寿岀岁岂岃岄岅岆岇岈岉岊岋岌岍岎岏岐岑岒岓岔岕岖岗岘岙岚岛岜",
     "岝岞岟岠岡岢岣岤岥岦岧岨岩岪岫岬岭岮岯岰岱岲岳岴岵岶岷岸岹岺岻岼岽岾岿峀峁峂峃峄峅峆峇峈峉峊峋峌峍峎峏峐峑峒峓峔峕峖峗峘",
     "峙峚峛峜峝峞峟峠峡峢峣峤峥峦峧峨峩峪峫峬峭峮峯峰峱峲峳峴峵島峷峸峹峺峻峼峽峾峿嶀嶁嶂嶃嶄嶅嶆嶇嶈嶉嶊嶋嶌嶍嶎嶏嶐嶑嶒嶓嶔",
     "嶕嶖嶗嶘嶙嶚嶛嶜嶝嶞嶟嶠嶡嶢嶣嶤嶥嶦嶧嶨嶩嶪嶫嶬嶭嶮嶯嶰嶱嶲嶳嶴嶵嶶嶷嶸嶹嶺嶻嶼嶽嶾嶿巀巁巂巃巄巅巆巇巈巉巊巋巌巍巎巏巐",
     "巑巒巓巔巕巖巗巘巙巚巛巜川州巟巠巡巢巣巤工左巧巨巩巪巫巬巭差巯巰己已巳巴巵巶巷巸巹巺巻巼巽巾巿庀庁庂広庄庅庆庇庈庉床庋庌",
     "庍庎序庐庑庒库应底庖店庘庙庚庛府庝庞废庠庡庢庣庤庥度座庨庩庪庫庬庭庮庯庰庱庲庳庴庵庶康庸庹庺庻庼庽庾庿廀廁廂廃廄廅廆廇廈",
     "廉廊廋廌廍廎廏廐廑廒廓廔廕廖廗廘廙廚廛廜廝廞廟廠廡廢廣廤廥廦廧廨廩廪廫廬廭廮廯廰廱廲廳廴廵延廷廸廹建廻廼廽廾廿往征徂徃径",
     "待徆徇很徉徊律後徍徎徏徐徑徒従徔徕徖得徘徙徚徛徜徝從徟徠御徢徣徤徥徦徧徨復循徫徬徭微徯徰徱徲徳徴徵徶德徸徹徺徻徼徽徾徿忀",
     "忁忂心忄必忆忇忈忉忊忋忌忍忎忏忐忑忒忓忔忕忖志忘忙忚忛応忝忞忟忠忡忢忣忤忥忦忧忨忩忪快忬忭忮忯忰忱忲忳忴念忶忷忸忹忺忻忼",
     "忽忾忿悀悁悂悃悄悅悆悇悈悉悊悋悌悍悎悏悐悑悒悓悔悕悖悗悘悙悚悛悜悝悞悟悠悡悢患悤悥悦悧您悩悪悫悬悭悮悯悰悱悲悳悴悵悶悷悸",
     "悹悺悻悼悽悾悿惀惁惂惃惄情惆惇惈惉惊惋惌惍惎惏惐惑惒惓惔惕惖惗惘惙惚惛惜惝惞惟惠惡惢惣惤惥惦惧惨惩惪惫惬惭惮惯惰惱惲想惴",
     "惵惶惷惸惹惺惻惼惽惾惿憀憁憂憃憄憅憆憇憈憉憊憋憌憍憎憏憐憑憒憓憔憕憖憗憘憙憚憛憜憝憞憟憠憡憢憣憤憥憦憧憨憩憪憫憬憭憮憯憰",
     "憱憲憳憴憵憶憷憸憹憺憻憼憽憾憿懀懁懂懃懄懅懆懇懈應懊懋懌懍懎懏懐懑懒懓懔懕懖懗懘懙懚懛懜懝懞懟懠懡懢懣懤懥懦懧懨懩懪懫懬",
     "懭懮懯懰懱懲懳懴懵懶懷懸懹懺懻懼懽懾懿技抁抂抃抄抅抆抇抈抉把抋抌抍抎抏抐抑抒抓抔投抖抗折抙抚抛抜抝択抟抠抡抢抣护报抦抧抨",
     "抩抪披抬抭抮抯抰抱抲抳抴抵抶抷抸抹抺抻押抽抾抿拀拁拂拃拄担拆拇拈拉拊拋拌拍拎拏拐拑拒拓拔拕拖拗拘拙拚招拜拝拞拟拠拡拢拣拤",
     "拥拦拧拨择拪拫括拭拮拯拰拱拲拳拴拵拶拷拸拹拺拻拼拽拾拿掀掁掂掃掄掅掆掇授掉掊掋掌掍掎掏掐掑排掓掔掕掖掗掘掙掚掛掜掝掞掟掠",
     "採探掣掤接掦控推掩措掫掬掭掮掯掰掱掲掳掴掵掶掷掸掹掺掻掼掽掾掿揀揁揂揃揄揅揆揇揈揉揊揋揌揍揎描提揑插揓揔揕揖揗揘揙揚換揜",
     "揝揞揟揠握揢揣揤揥揦揧揨揩揪揫揬揭揮揯揰揱揲揳援揵揶揷揸揹揺揻揼揽揾揿撀撁撂撃撄撅撆撇撈撉撊撋撌撍撎撏撐撑撒撓撔撕撖撗撘",
     "撙撚撛撜撝撞撟撠撡撢撣撤撥撦撧撨撩撪撫撬播撮撯撰撱撲撳撴撵撶撷撸撹撺撻撼撽撾撿擀擁擂擃擄擅擆擇擈擉擊擋擌操擎擏擐擑擒擓擔",
     "擕擖擗擘擙據擛擜擝擞擟擠擡擢擣擤擥擦擧擨擩擪擫擬擭擮擯擰擱擲擳擴擵擶擷擸擹擺擻擼擽擾擿斀斁斂斃斄斅斆文斈斉斊斋斌斍斎斏斐",
     "斑斒斓斔斕斖斗斘料斚斛斜斝斞斟斠斡斢斣斤斥斦斧斨斩斪斫斬断斮斯新斱斲斳斴斵斶斷斸方斺斻於施斾斿旀旁旂旃旄旅旆旇旈旉旊旋旌",
     "旍旎族旐旑旒旓旔旕旖旗旘旙旚旛旜旝旞旟无旡既旣旤日旦旧旨早旪旫旬旭旮旯旰旱旲旳旴旵时旷旸旹旺旻旼旽旾旿暀暁暂暃暄暅暆暇暈",
     "暉暊暋暌暍暎暏暐暑暒暓暔暕暖暗暘暙暚暛暜暝暞暟暠暡暢暣暤暥暦暧暨暩暪暫暬暭暮暯暰暱暲暳暴暵暶暷暸暹暺暻暼暽暾暿曀曁曂曃曄",
     "曅曆曇曈曉曊曋曌曍曎曏曐曑曒曓曔曕曖曗曘曙曚曛曜曝曞曟曠曡曢曣曤曥曦曧曨曩曪曫曬曭曮曯曰曱曲曳更曵曶曷書曹曺曻曼曽曾替枀",
     "极枂枃构枅枆枇枈枉枊枋枌枍枎枏析枑枒枓枔枕枖林枘枙枚枛果枝枞枟枠枡枢枣枤枥枦枧枨枩枪枫枬枭枮枯枰枱枲枳枴枵架枷枸枹枺枻枼",
     "枽枾枿柀柁柂柃柄柅柆柇柈柉柊柋柌柍柎柏某柑柒染柔柕柖柗柘柙柚柛柜柝柞柟柠柡柢柣柤查柦柧柨柩柪柫柬柭柮柯柰柱柲柳柴柵柶柷柸",
     "柹柺査柼柽柾柿梀梁梂梃梄梅梆梇梈梉梊梋梌梍梎梏梐梑梒梓梔梕梖梗梘梙梚梛梜條梞梟梠梡梢梣梤梥梦梧梨梩梪梫梬梭梮梯械梱梲梳梴",
     "梵梶梷梸梹梺梻梼梽梾梿检棁棂棃棄棅棆棇棈棉棊棋棌棍棎棏棐棑棒棓棔棕棖棗棘棙棚棛棜棝棞棟棠棡棢棣棤棥棦棧棨棩棪棫棬棭森棯棰",
     "棱棲棳棴棵棶棷棸棹棺棻棼棽棾棿榀榁概榃榄榅榆榇榈榉榊榋榌榍榎榏榐榑榒榓榔榕榖榗榘榙榚榛榜榝榞榟榠榡榢榣榤榥榦榧榨榩榪榫榬",
     "榭榮榯榰榱榲榳榴榵榶榷榸榹榺榻榼榽榾榿槀槁槂槃槄槅槆槇槈槉槊構槌槍槎槏槐槑槒槓槔槕槖槗様槙槚槛槜槝槞槟槠槡槢槣槤槥槦槧槨",
     "槩槪槫槬槭槮槯槰槱槲槳槴槵槶槷槸槹槺槻槼槽槾槿檀檁檂檃檄檅檆檇檈檉檊檋檌檍檎檏檐檑檒檓檔檕檖檗檘檙檚檛檜檝檞檟檠檡檢檣檤",
     "檥檦檧檨檩檪檫檬檭檮檯檰檱檲檳檴檵檶檷檸檹檺檻檼檽檾檿櫀櫁櫂櫃櫄櫅櫆櫇櫈櫉櫊櫋櫌櫍櫎櫏櫐櫑櫒櫓櫔櫕櫖櫗櫘櫙櫚櫛櫜櫝櫞櫟櫠",
     "櫡櫢櫣櫤櫥櫦櫧櫨櫩櫪櫫櫬櫭櫮櫯櫰櫱櫲櫳櫴櫵櫶櫷櫸櫹櫺櫻櫼櫽櫾櫿殀殁殂殃殄殅殆殇殈殉殊残殌殍殎殏殐殑殒殓殔殕殖殗殘殙殚殛殜",
     "殝殞殟殠殡殢殣殤殥殦殧殨殩殪殫殬殭殮殯殰殱殲殳殴段殶殷殸殹殺殻殼殽殾殿毀毁毂毃毄毅毆毇毈毉毊毋毌母毎每毐毑毒毓比毕毖毗毘",
     "毙毚毛毜毝毞毟毠毡毢毣毤毥毦毧毨毩毪毫毬毭毮毯毰毱毲毳毴毵毶毷毸毹毺毻毼毽毾毿沀沁沂沃沄沅沆沇沈沉沊沋沌沍沎沏沐沑沒沓沔",
     "沕沖沗沘沙沚沛沜沝沞沟沠没沢沣沤沥沦沧沨沩沪沫沬沭沮沯沰沱沲河沴沵沶沷沸油沺治沼沽沾沿泀況泂泃泄泅泆泇泈泉泊泋泌泍泎泏泐",
     "泑泒泓泔法泖泗泘泙泚泛泜泝泞泟泠泡波泣泤泥泦泧注泩泪泫泬泭泮泯泰泱泲泳泴泵泶泷泸泹泺泻泼泽泾泿涀涁涂涃涄涅涆涇消涉涊涋涌",
     "涍涎涏涐涑涒涓涔涕涖涗涘涙涚涛涜涝涞涟涠涡涢涣涤涥润涧涨涩涪涫涬涭涮涯涰涱液涳涴涵涶涷涸涹涺涻涼涽涾涿淀淁淂淃淄淅淆淇淈",
     "淉淊淋淌淍淎淏淐淑淒淓淔淕淖淗淘淙淚淛淜淝淞淟淠淡淢淣淤淥淦淧淨淩淪淫淬淭淮淯淰深淲淳淴淵淶混淸淹淺添淼淽淾淿満溁溂溃溄",
     "溅溆溇溈溉溊溋溌溍溎溏源溑溒溓溔溕準溗溘溙溚溛溜溝溞溟溠溡溢溣溤溥溦溧溨溩溪溫溬溭溮溯溰溱溲溳溴溵溶溷溸溹溺溻溼溽溾溿滀",
     "滁滂滃滄滅滆滇滈滉滊滋滌滍滎滏滐滑滒滓滔滕滖滗滘滙滚滛滜滝滞滟滠满滢滣滤滥滦滧滨滩滪滫滬滭滮滯滰滱滲滳滴滵滶滷滸滹滺滻滼",
     "滽滾滿澀澁澂澃澄澅澆澇澈澉澊澋澌澍澎澏澐澑澒澓澔澕澖澗澘澙澚澛澜澝澞澟澠澡澢澣澤澥澦澧澨澩澪澫澬澭澮澯澰澱澲澳澴澵澶澷澸",
     "澹澺澻澼澽澾澿激濁濂濃濄濅濆濇濈濉濊濋濌濍濎濏濐濑濒濓濔濕濖濗濘濙濚濛濜濝濞濟濠濡濢濣濤濥濦濧濨濩濪濫濬濭濮濯濰濱濲濳濴",
     "濵濶濷濸濹濺濻濼濽濾濿炀炁炂炃炄炅炆炇炈炉炊炋炌炍炎炏炐炑炒炓炔炕炖炗炘炙炚炛炜炝炞炟炠炡炢炣炤炥炦炧炨炩炪炫炬炭炮炯炰",
     "炱炲炳炴炵炶炷炸点為炻炼炽炾炿烀烁烂烃烄烅烆烇烈烉烊烋烌烍烎烏烐烑烒烓烔烕烖烗烘烙烚烛烜烝烞烟烠烡烢烣烤烥烦烧烨烩烪烫烬",
     "热烮烯烰烱烲烳烴烵烶烷烸烹烺烻烼烽烾烿熀熁熂熃熄熅熆熇熈熉熊熋熌熍熎熏熐熑熒熓熔熕熖熗熘熙熚熛熜熝熞熟熠熡熢熣熤熥熦熧熨",
     "熩熪熫熬熭熮熯熰熱熲熳熴熵熶熷熸熹熺熻熼熽熾熿燀燁燂燃燄燅燆燇燈燉燊燋燌燍燎燏燐燑燒燓燔燕燖燗燘燙燚燛燜燝燞營燠燡燢燣燤",
     "燥燦燧燨燩燪燫燬燭燮燯燰燱燲燳燴燵燶燷燸燹燺燻燼燽燾燿犀犁犂犃犄犅犆犇犈犉犊犋犌犍犎犏犐犑犒犓犔犕犖犗犘犙犚犛犜犝犞犟犠",
     "犡犢犣犤犥犦犧犨犩犪犫犬犭犮犯犰犱犲犳犴犵状犷犸犹犺犻犼犽犾犿狀狁狂狃狄狅狆狇狈狉狊狋狌狍狎狏狐狑狒狓狔狕狖狗狘狙狚狛狜",
     "狝狞狟狠狡狢狣狤狥狦狧狨狩狪狫独狭狮狯狰狱狲狳狴狵狶狷狸狹狺狻狼狽狾狿玀玁玂玃玄玅玆率玈玉玊王玌玍玎玏玐玑玒玓玔玕玖玗玘",
     "玙玚玛玜玝玞玟玠玡玢玣玤玥玦玧玨玩玪玫玬玭玮环现玱玲玳玴玵玶玷玸玹玺玻玼玽玾玿珀珁珂珃珄珅珆珇珈珉珊珋珌珍珎珏珐珑珒珓珔",
     "珕珖珗珘珙珚珛珜珝珞珟珠珡珢珣珤珥珦珧珨珩珪珫珬班珮珯珰珱珲珳珴珵珶珷珸珹珺珻珼珽現珿璀璁璂璃璄璅璆璇璈璉璊璋璌璍璎璏璐",
     "璑璒璓璔璕璖璗璘璙璚璛璜璝璞璟璠璡璢璣璤璥璦璧璨璩璪璫璬璭璮璯環璱璲璳璴璵璶璷璸璹璺璻璼璽璾璿瓀瓁瓂瓃瓄瓅瓆瓇瓈瓉瓊瓋瓌",
     "瓍瓎瓏瓐瓑瓒瓓瓔瓕瓖瓗瓘瓙瓚瓛瓜瓝瓞瓟瓠瓡瓢瓣瓤瓥瓦瓧瓨瓩瓪瓫瓬瓭瓮瓯瓰瓱瓲瓳瓴瓵瓶瓷瓸瓹瓺瓻瓼瓽瓾瓿疀疁疂疃疄疅疆疇疈",
     "疉疊疋疌疍疎疏疐疑疒疓疔疕疖疗疘疙疚疛疜疝疞疟疠疡疢疣疤疥疦疧疨疩疪疫疬疭疮疯疰疱疲疳疴疵疶疷疸疹疺疻疼疽疾疿痀痁痂痃痄",
     "病痆症痈痉痊痋痌痍痎痏痐痑痒痓痔痕痖痗痘痙痚痛痜痝痞痟痠痡痢痣痤痥痦痧痨痩痪痫痬痭痮痯痰痱痲痳痴痵痶痷痸痹痺痻痼痽痾痿皀",
     "皁皂皃的皅皆皇皈皉皊皋皌皍皎皏皐皑皒皓皔皕皖皗皘皙皚皛皜皝皞皟皠皡皢皣皤皥皦皧皨皩皪皫皬皭皮皯皰皱皲皳皴皵皶皷皸皹皺皻皼",
     "皽皾皿盀盁盂盃盄盅盆盇盈盉益盋盌盍盎盏盐监盒盓盔盕盖盗盘盙盚盛盜盝盞盟盠盡盢監盤盥盦盧盨盩盪盫盬盭目盯盰盱盲盳直盵盶盷相",
     "盹盺盻盼盽盾盿瞀瞁瞂瞃瞄瞅瞆瞇瞈瞉瞊瞋瞌瞍瞎瞏瞐瞑瞒瞓瞔瞕瞖瞗瞘瞙瞚瞛瞜瞝瞞瞟瞠瞡瞢瞣瞤瞥瞦瞧瞨瞩瞪瞫瞬瞭瞮瞯瞰瞱瞲瞳瞴",
     "瞵瞶瞷瞸瞹瞺瞻瞼瞽瞾瞿矀矁矂矃矄矅矆矇矈矉矊矋矌矍矎矏矐矑矒矓矔矕矖矗矘矙矚矛矜矝矞矟矠矡矢矣矤知矦矧矨矩矪矫矬短矮矯矰",
     "矱矲石矴矵矶矷矸矹矺矻矼矽矾矿碀碁碂碃碄碅碆碇碈碉碊碋碌碍碎碏碐碑碒碓碔碕碖碗碘碙碚碛碜碝碞碟碠碡碢碣碤碥碦碧碨碩碪碫碬",
     "碭碮碯碰碱碲碳碴碵碶碷碸碹確碻碼碽碾碿磀磁磂磃磄磅磆磇磈磉磊磋磌磍磎磏磐磑磒磓磔磕磖磗磘磙磚磛磜磝磞磟磠磡磢磣磤磥磦磧磨",
     "磩磪磫磬磭磮磯磰磱磲磳磴磵磶磷磸磹磺磻磼磽磾磿禀禁禂禃禄禅禆禇禈禉禊禋禌禍禎福禐禑禒禓禔禕禖禗禘禙禚禛禜禝禞禟禠禡禢禣禤",
     "禥禦禧禨禩禪禫禬禭禮禯禰禱禲禳禴禵禶禷禸禹禺离禼禽禾禿秀私秂秃秄秅秆秇秈秉秊秋秌种秎秏秐科秒秓秔秕秖秗秘秙秚秛秜秝秞租秠",
     "秡秢秣秤秥秦秧秨秩秪秫秬秭秮积称秱秲秳秴秵秶秷秸秹秺移秼秽秾秿窀突窂窃窄窅窆窇窈窉窊窋窌窍窎窏窐窑窒窓窔窕窖窗窘窙窚窛窜",
     "窝窞窟窠窡窢窣窤窥窦窧窨窩窪窫窬窭窮窯窰窱窲窳窴窵窶窷窸窹窺窻窼窽窾窿竀竁竂竃竄竅竆竇竈竉竊立竌竍竎竏竐竑竒竓竔竕竖竗竘",
     "站竚竛竜竝竞竟章竡竢竣竤童竦竧竨竩竪竫竬竭竮端竰竱竲竳竴竵競竷竸竹竺竻竼竽竾竿简箁箂箃箄箅箆箇箈箉箊箋箌箍箎箏箐箑箒箓箔",
     "箕箖算箘箙箚箛箜箝箞箟箠管箢箣箤箥箦箧箨箩箪箫箬箭箮箯箰箱箲箳箴箵箶箷箸箹箺箻箼箽箾箿節篁篂篃範篅篆篇篈築篊篋篌篍篎篏篐",
     "篑篒篓篔篕篖篗篘篙篚篛篜篝篞篟篠篡篢篣篤篥篦篧篨篩篪篫篬篭篮篯篰篱篲篳篴篵篶篷篸篹篺篻篼篽篾篿粀粁粂粃粄粅粆粇粈粉粊粋粌",
     "粍粎粏粐粑粒粓粔粕粖粗粘粙粚粛粜粝粞粟粠粡粢粣粤粥粦粧粨粩粪粫粬粭粮粯粰粱粲粳粴粵粶粷粸粹粺粻粼粽精粿糀糁糂糃糄糅糆糇糈",
     "糉糊糋糌糍糎糏糐糑糒糓糔糕糖糗糘糙糚糛糜糝糞糟糠糡糢糣糤糥糦糧糨糩糪糫糬糭糮糯糰糱糲糳糴糵糶糷糸糹糺系糼糽糾糿綀綁綂綃綄",
     "綅綆綇綈綉綊綋綌綍綎綏綐綑綒經綔綕綖綗綘継続綛綜綝綞綟綠綡綢綣綤綥綦綧綨綩綪綫綬維綮綯綰綱網綳綴綵綶綷綸綹綺綻綼綽綾綿緀",
     "緁緂緃緄緅緆緇緈緉緊緋緌緍緎総緐緑緒緓緔緕緖緗緘緙線緛緜緝緞緟締緡緢緣緤緥緦緧編緩緪緫緬緭緮緯緰緱緲緳練緵緶緷緸緹緺緻緼",
     "緽緾緿纀纁纂纃纄纅纆纇纈纉纊纋續纍纎纏纐纑纒纓纔纕纖纗纘纙纚纛纜纝纞纟纠纡红纣纤纥约级纨纩纪纫纬纭纮纯纰纱纲纳纴纵纶纷纸",
     "纹纺纻纼纽纾线绀绁绂练组绅细织终绉绊绋绌绍绎经绐绑绒结绔绕绖绗绘给绚绛络绝绞统绠绡绢绣绤绥绦继绨绩绪绫绬续绮绯绰绱绲绳维",
     "绵绶绷绸绹绺绻综绽绾绿羀羁羂羃羄羅羆羇羈羉羊羋羌羍美羏羐羑羒羓羔羕羖羗羘羙羚羛羜羝羞羟羠羡羢羣群羥羦羧羨義羪羫羬羭羮羯羰",
     "羱羲羳羴羵羶羷羸羹羺羻羼羽羾羿翀翁翂翃翄翅翆翇翈翉翊翋翌翍翎翏翐翑習翓翔翕翖翗翘翙翚翛翜翝翞翟翠翡翢翣翤翥翦翧翨翩翪翫翬",
     "翭翮翯翰翱翲翳翴翵翶翷翸翹翺翻翼翽翾翿肀肁肂肃肄肅肆肇肈肉肊肋肌肍肎肏肐肑肒肓肔肕肖肗肘肙肚肛肜肝肞肟肠股肢肣肤肥肦肧肨",
     "肩肪肫肬肭肮肯肰肱育肳肴肵肶肷肸肹肺肻肼肽肾肿胀胁胂胃胄胅胆胇胈胉胊胋背胍胎胏胐胑胒胓胔胕胖胗胘胙胚胛胜胝胞胟胠胡胢胣胤",
     "胥胦胧胨胩胪胫胬胭胮胯胰胱胲胳胴胵胶胷胸胹胺胻胼能胾胿膀膁膂膃膄膅膆膇膈膉膊膋膌膍膎膏膐膑膒膓膔膕膖膗膘膙膚膛膜膝膞膟膠",
     "膡膢膣膤膥膦膧膨膩膪膫膬膭膮膯膰膱膲膳膴膵膶膷膸膹膺膻膼膽膾膿臀臁臂臃臄臅臆臇臈臉臊臋臌臍臎臏臐臑臒臓臔臕臖臗臘臙臚臛臜",
     "臝臞臟臠臡臢臣臤臥臦臧臨臩自臫臬臭臮臯臰臱臲至致臵臶臷臸臹臺臻臼臽臾臿芀芁节芃芄芅芆芇芈芉芊芋芌芍芎芏芐芑芒芓芔芕芖芗芘",
     "芙芚芛芜芝芞芟芠芡芢芣芤芥芦芧芨芩芪芫芬芭芮芯芰花芲芳芴芵芶芷芸芹芺芻芼芽芾芿苀苁苂苃苄苅苆苇苈苉苊苋苌苍苎苏苐苑苒苓苔",
     "苕苖苗苘苙苚苛苜苝苞苟苠苡苢苣苤若苦苧苨苩苪苫苬苭苮苯苰英苲苳苴苵苶苷苸苹苺苻苼苽苾苿莀莁莂莃莄莅莆莇莈莉莊莋莌莍莎莏莐",
     "莑莒莓莔莕莖莗莘莙莚莛莜莝莞莟莠莡莢莣莤莥莦莧莨莩莪莫莬莭莮莯莰莱莲莳莴莵莶获莸莹莺莻莼莽莾莿菀菁菂菃菄菅菆菇菈菉菊菋菌",
     "菍菎菏菐菑菒菓菔菕菖菗菘菙菚菛菜菝菞菟菠菡菢菣菤菥菦菧菨菩菪菫菬菭菮華菰菱菲菳菴菵菶菷菸菹菺菻菼菽菾菿蒀蒁蒂蒃蒄蒅蒆蒇蒈",
     "蒉蒊蒋蒌蒍蒎蒏蒐蒑蒒蒓蒔蒕蒖蒗蒘蒙蒚蒛蒜蒝蒞蒟蒠蒡蒢蒣蒤蒥蒦蒧蒨蒩蒪蒫蒬蒭蒮蒯蒰蒱蒲蒳蒴蒵蒶蒷蒸蒹蒺蒻蒼蒽蒾蒿蓀蓁蓂蓃蓄",
     "蓅蓆蓇蓈蓉蓊蓋蓌蓍蓎蓏蓐蓑蓒蓓蓔蓕蓖蓗蓘蓙蓚蓛蓜蓝蓞蓟蓠蓡蓢蓣蓤蓥蓦蓧蓨蓩蓪蓫蓬蓭蓮蓯蓰蓱蓲蓳蓴蓵蓶蓷蓸蓹蓺蓻蓼蓽蓾蓿薀",
     "薁薂薃薄薅薆薇薈薉薊薋薌薍薎薏薐薑薒薓薔薕薖薗薘薙薚薛薜薝薞薟薠薡薢薣薤薥薦薧薨薩薪薫薬薭薮薯薰薱薲薳薴薵薶薷薸薹薺薻薼",
     "薽薾薿藀藁藂藃藄藅藆藇藈藉藊藋藌藍藎藏藐藑藒藓藔藕藖藗藘藙藚藛藜藝藞藟藠藡藢藣藤藥藦藧藨藩藪藫藬藭藮藯藰藱藲藳藴藵藶藷藸",
     "藹藺藻藼藽藾藿蚀蚁蚂蚃蚄蚅蚆蚇蚈蚉蚊蚋蚌蚍蚎蚏蚐蚑蚒蚓蚔蚕蚖蚗蚘蚙蚚蚛蚜蚝蚞蚟蚠蚡蚢蚣蚤蚥蚦蚧蚨蚩蚪蚫蚬蚭蚮蚯蚰蚱蚲蚳蚴",
     "蚵蚶蚷蚸蚹蚺蚻蚼蚽蚾蚿蛀蛁蛂蛃蛄蛅蛆蛇蛈蛉蛊蛋蛌蛍蛎蛏蛐蛑蛒蛓蛔蛕蛖蛗蛘蛙蛚蛛蛜蛝蛞蛟蛠蛡蛢蛣蛤蛥蛦蛧蛨蛩蛪蛫蛬蛭蛮蛯蛰",
     "蛱蛲蛳蛴蛵蛶蛷蛸蛹蛺蛻蛼蛽蛾蛿螀螁螂螃螄螅螆螇螈螉螊螋螌融螎螏螐螑螒螓螔螕螖螗螘螙螚螛螜螝螞螟螠螡螢螣螤螥螦螧螨螩螪螫螬",
     "螭螮螯螰螱螲螳螴螵螶螷螸螹螺螻螼螽螾螿蟀蟁蟂蟃蟄蟅蟆蟇蟈蟉蟊蟋蟌蟍蟎蟏蟐蟑蟒蟓蟔蟕蟖蟗蟘蟙蟚蟛蟜蟝蟞蟟蟠蟡蟢蟣蟤蟥蟦蟧蟨",
     "蟩蟪蟫蟬蟭蟮蟯蟰蟱蟲蟳蟴蟵蟶蟷蟸蟹蟺蟻蟼蟽蟾蟿袀袁袂袃袄袅袆袇袈袉袊袋袌袍袎袏袐袑袒袓袔袕袖袗袘袙袚袛袜袝袞袟袠袡袢袣袤",
     "袥袦袧袨袩袪被袬袭袮袯袰袱袲袳袴袵袶袷袸袹袺袻袼袽袾袿裀裁裂裃裄装裆裇裈裉裊裋裌裍裎裏裐裑裒裓裔裕裖裗裘裙裚裛補裝裞裟裠",
     "裡裢裣裤裥裦裧裨裩裪裫裬裭裮裯裰裱裲裳裴裵裶裷裸裹裺裻裼製裾裿覀要覂覃覄覅覆覇覈覉覊見覌覍覎規覐覑覒覓覔覕視覗覘覙覚覛覜",
     "覝覞覟覠覡覢覣覤覥覦覧覨覩親覫覬覭覮覯覰覱覲観覴覵覶覷覸覹覺覻覼覽覾覿觀见观觃规觅视觇览觉觊觋觌觍觎觏觐觑角觓觔觕觖觗觘",
     "觙觚觛觜觝觞觟觠觡觢解觤觥触觧觨觩觪觫觬觭觮觯觰觱觲觳觴觵觶觷觸觹觺觻觼觽觾觿誀誁誂誃誄誅誆誇誈誉誊誋誌認誎誏誐誑誒誓誔",
     "誕誖誗誘誙誚誛誜誝語誟誠誡誢誣誤誥誦誧誨誩說誫説読誮誯誰誱課誳誴誵誶誷誸誹誺誻誼誽誾調諀諁諂諃諄諅諆談諈諉諊請諌諍諎諏諐",
     "諑諒諓諔諕論諗諘諙諚諛諜諝諞諟諠諡諢諣諤諥諦諧諨諩諪諫諬諭諮諯諰諱諲諳諴諵諶諷諸諹諺諻諼諽諾諿讀讁讂讃讄讅讆讇讈讉變讋讌",
     "讍讎讏讐讑讒讓讔讕讖讗讘讙讚讛讜讝讞讟讠计订讣认讥讦讧讨让讪讫讬训议讯记讱讲讳讴讵讶讷许讹论讻讼讽设访诀证诂诃评诅识诇诈",
     "诉诊诋诌词诎诏诐译诒诓诔试诖诗诘诙诚诛诜话诞诟诠诡询诣诤该详诧诨诩诪诫诬语诮误诰诱诲诳说诵诶请诸诹诺读诼诽课诿貀貁貂貃貄",
     "貅貆貇貈貉貊貋貌貍貎貏貐貑貒貓貔貕貖貗貘貙貚貛貜貝貞貟負財貢貣貤貥貦貧貨販貪貫責貭貮貯貰貱貲貳貴貵貶買貸貹貺費貼貽貾貿賀",
     "賁賂賃賄賅賆資賈賉賊賋賌賍賎賏賐賑賒賓賔賕賖賗賘賙賚賛賜賝賞賟賠賡賢賣賤賥賦賧賨賩質賫賬賭賮賯賰賱賲賳賴賵賶賷賸賹賺賻購",
     "賽賾賿趀趁趂趃趄超趆趇趈趉越趋趌趍趎趏趐趑趒趓趔趕趖趗趘趙趚趛趜趝趞趟趠趡趢趣趤趥趦趧趨趩趪趫趬趭趮趯趰趱趲足趴趵趶趷趸",
     "趹趺趻趼趽趾趿跀跁跂跃跄跅跆跇跈跉跊跋跌跍跎跏跐跑跒跓跔跕跖跗跘跙跚跛跜距跞跟跠跡跢跣跤跥跦跧跨跩跪跫跬跭跮路跰跱跲跳跴",
     "践跶跷跸跹跺跻跼跽跾跿躀躁躂躃躄躅躆躇躈躉躊躋躌躍躎躏躐躑躒躓躔躕躖躗躘躙躚躛躜躝躞躟躠躡躢躣躤躥躦躧躨躩躪身躬躭躮躯躰",
     "躱躲躳躴躵躶躷躸躹躺躻躼躽躾躿軀軁軂軃軄軅軆軇軈軉車軋軌軍軎軏軐軑軒軓軔軕軖軗軘軙軚軛軜軝軞軟軠軡転軣軤軥軦軧軨軩軪軫軬",
     "軭軮軯軰軱軲軳軴軵軶軷軸軹軺軻軼軽軾軿辀辁辂较辄辅辆辇辈辉辊辋辌辍辎辏辐辑辒输辔辕辖辗辘辙辚辛辜辝辞辟辠辡辢辣辤辥辦辧辨",
     "辩辪辫辬辭辮辯辰辱農辳辴辵辶辷辸边辺辻込辽达辿迀迁迂迃迄迅迆过迈迉迊迋迌迍迎迏运近迒迓返迕迖迗还这迚进远违连迟迠迡迢迣迤",
     "迥迦迧迨迩迪迫迬迭迮迯述迱迲迳迴迵迶迷迸迹迺迻迼追迾迿邀邁邂邃還邅邆邇邈邉邊邋邌邍邎邏邐邑邒邓邔邕邖邗邘邙邚邛邜邝邞邟邠",
     "邡邢那邤邥邦邧邨邩邪邫邬邭邮邯邰邱邲邳邴邵邶邷邸邹邺邻邼邽邾邿郀郁郂郃郄郅郆郇郈郉郊郋郌郍郎郏郐郑郒郓郔郕郖郗郘郙郚郛郜",
     "郝郞郟郠郡郢郣郤郥郦郧部郩郪郫郬郭郮郯郰郱郲郳郴郵郶郷郸郹郺郻郼都郾郿醀醁醂醃醄醅醆醇醈醉醊醋醌醍醎醏醐醑醒醓醔醕醖醗醘",
     "醙醚醛醜醝醞醟醠醡醢醣醤醥醦醧醨醩醪醫醬醭醮醯醰醱醲醳醴醵醶醷醸醹醺醻醼醽醾醿釀釁釂釃釄釅釆采釈釉释釋里重野量釐金釒釓釔",
     "釕釖釗釘釙釚釛釜針釞釟釠釡釢釣釤釥釦釧釨釩釪釫釬釭釮釯釰釱釲釳釴釵釶釷釸釹釺釻釼釽釾釿銀銁銂銃銄銅銆銇銈銉銊銋銌銍銎銏銐",
     "銑銒銓銔銕銖銗銘銙銚銛銜銝銞銟銠銡銢銣銤銥銦銧銨銩銪銫銬銭銮銯銰銱銲銳銴銵銶銷銸銹銺銻銼銽銾銿鋀鋁鋂鋃鋄鋅鋆鋇鋈鋉鋊鋋鋌",
     "鋍鋎鋏鋐鋑鋒鋓鋔鋕鋖鋗鋘鋙鋚鋛鋜鋝鋞鋟鋠鋡鋢鋣鋤鋥鋦鋧鋨鋩鋪鋫鋬鋭鋮鋯鋰鋱鋲鋳鋴鋵鋶鋷鋸鋹鋺鋻鋼鋽鋾鋿鎀鎁鎂鎃鎄鎅鎆鎇鎈",
     "鎉鎊鎋鎌鎍鎎鎏鎐鎑鎒鎓鎔鎕鎖鎗鎘鎙鎚鎛鎜鎝鎞鎟鎠鎡鎢鎣鎤鎥鎦鎧鎨鎩鎪鎫鎬鎭鎮鎯鎰鎱鎲鎳鎴鎵鎶鎷鎸鎹鎺鎻鎼鎽鎾鎿鏀鏁鏂鏃鏄",
     "鏅鏆鏇鏈鏉鏊鏋鏌鏍鏎鏏鏐鏑鏒鏓鏔鏕鏖鏗鏘鏙鏚鏛鏜鏝鏞鏟鏠鏡鏢鏣鏤鏥鏦鏧鏨鏩鏪鏫鏬鏭鏮鏯鏰鏱鏲鏳鏴鏵鏶鏷鏸鏹鏺鏻鏼鏽鏾鏿钀",
     "钁钂钃钄钅钆钇针钉钊钋钌钍钎钏钐钑钒钓钔钕钖钗钘钙钚钛钜钝钞钟钠钡钢钣钤钥钦钧钨钩钪钫钬钭钮钯钰钱钲钳钴钵钶钷钸钹钺钻钼",
     "钽钾钿铀铁铂铃铄铅铆铇铈铉铊铋铌铍铎铏铐铑铒铓铔铕铖铗铘铙铚铛铜铝铞铟铠铡铢铣铤铥铦铧铨铩铪铫铬铭铮铯铰铱铲铳铴铵银铷铸",
     "铹铺铻铼铽链铿門閁閂閃閄閅閆閇閈閉閊開閌閍閎閏閐閑閒間閔閕閖閗閘閙閚閛閜閝閞閟閠閡関閣閤閥閦閧閨閩閪閫閬閭閮閯閰閱閲閳閴",
     "閵閶閷閸閹閺閻閼閽閾閿闀闁闂闃闄闅闆闇闈闉闊闋闌闍闎闏闐闑闒闓闔闕闖闗闘闙闚闛關闝闞闟闠闡闢闣闤闥闦闧门闩闪闫闬闭问闯闰",
     "闱闲闳间闵闶闷闸闹闺闻闼闽闾闿隀隁隂隃隄隅隆隇隈隉隊隋隌隍階随隐隑隒隓隔隕隖隗隘隙隚際障隝隞隟隠隡隢隣隤隥隦隧隨隩險隫隬",
     "隭隮隯隰隱隲隳隴隵隶隷隸隹隺隻隼隽难隿雀雁雂雃雄雅集雇雈雉雊雋雌雍雎雏雐雑雒雓雔雕雖雗雘雙雚雛雜雝雞雟雠雡離難雤雥雦雧雨",
     "雩雪雫雬雭雮雯雰雱雲雳雴雵零雷雸雹雺電雼雽雾雿鞀鞁鞂鞃鞄鞅鞆鞇鞈鞉鞊鞋鞌鞍鞎鞏鞐鞑鞒鞓鞔鞕鞖鞗鞘鞙鞚鞛鞜鞝鞞鞟鞠鞡鞢鞣鞤",
     "鞥鞦鞧鞨鞩鞪鞫鞬鞭鞮鞯鞰鞱鞲鞳鞴鞵鞶鞷鞸鞹鞺鞻鞼鞽鞾鞿韀韁韂韃韄韅韆韇韈韉韊韋韌韍韎韏韐韑韒韓韔韕韖韗韘韙韚韛韜韝韞韟韠",
     "韡韢韣韤韥韦韧韨韩韪韫韬韭韮韯韰韱韲音韴韵韶韷韸韹韺韻韼韽韾響颀颁颂颃预颅领颇颈颉颊颋颌颍颎颏颐频颒颓颔颕颖颗题颙颚颛颜",
     "额颞颟颠颡颢颣颤颥颦颧風颩颪颫颬颭颮颯颰颱颲颳颴颵颶颷颸颹颺颻颼颽颾颿飀飁飂飃飄飅飆飇飈飉飊飋飌飍风飏飐飑飒飓飔飕飖飗飘",
     "飙飚飛飜飝飞食飠飡飢飣飤飥飦飧飨飩飪飫飬飭飮飯飰飱飲飳飴飵飶飷飸飹飺飻飼飽飾飿馀馁馂馃馄馅馆馇馈馉馊馋馌馍馎馏馐馑馒馓馔",
     "馕首馗馘香馚馛馜馝馞馟馠馡馢馣馤馥馦馧馨馩馪馫馬馭馮馯馰馱馲馳馴馵馶馷馸馹馺馻馼馽馾馿駀駁駂駃駄駅駆駇駈駉駊駋駌駍駎駏駐",
     "駑駒駓駔駕駖駗駘駙駚駛駜駝駞駟駠駡駢駣駤駥駦駧駨駩駪駫駬駭駮駯駰駱駲駳駴駵駶駷駸駹駺駻駼駽駾駿骀骁骂骃骄骅骆骇骈骉骊骋验",
     "骍骎骏骐骑骒骓骔骕骖骗骘骙骚骛骜骝骞骟骠骡骢骣骤骥骦骧骨骩骪骫骬骭骮骯骰骱骲骳骴骵骶骷骸骹骺骻骼骽骾骿髀髁髂髃髄髅髆髇髈",
     "髉髊髋髌髍髎髏髐髑髒髓體髕髖髗高髙髚髛髜髝髞髟髠髡髢髣髤髥髦髧髨髩髪髫髬髭髮髯髰髱髲髳髴髵髶髷髸髹髺髻髼髽髾髿鮀鮁鮂鮃鮄",
     "鮅鮆鮇鮈鮉鮊鮋鮌鮍鮎鮏鮐鮑鮒鮓鮔鮕鮖鮗鮘鮙鮚鮛鮜鮝鮞鮟鮠鮡鮢鮣鮤鮥鮦鮧鮨鮩鮪鮫鮬鮭鮮鮯鮰鮱鮲鮳鮴鮵鮶鮷鮸鮹鮺鮻鮼鮽鮾鮿鯀",
     "鯁鯂鯃鯄鯅鯆鯇鯈鯉鯊鯋鯌鯍鯎鯏鯐鯑鯒鯓鯔鯕鯖鯗鯘鯙鯚鯛鯜鯝鯞鯟鯠鯡鯢鯣鯤鯥鯦鯧鯨鯩鯪鯫鯬鯭鯮鯯鯰鯱鯲鯳鯴鯵鯶鯷鯸鯹鯺鯻鯼",
     "鯽鯾鯿鲀鲁鲂鲃鲄鲅鲆鲇鲈鲉鲊鲋鲌鲍鲎鲏鲐鲑鲒鲓鲔鲕鲖鲗鲘鲙鲚鲛鲜鲝鲞鲟鲠鲡鲢鲣鲤鲥鲦鲧鲨鲩鲪鲫鲬鲭鲮鲯鲰鲱鲲鲳鲴鲵鲶鲷鲸",
     "鲹鲺鲻鲼鲽鲾鲿鳀鳁鳂鳃鳄鳅鳆鳇鳈鳉鳊鳋鳌鳍鳎鳏鳐鳑鳒鳓鳔鳕鳖鳗鳘鳙鳚鳛鳜鳝鳞鳟鳠鳡鳢鳣鳤鳥鳦鳧鳨鳩鳪鳫鳬鳭鳮鳯鳰鳱鳲鳳鳴",
     "鳵鳶鳷鳸鳹鳺鳻鳼鳽鳾鳿鶀鶁鶂鶃鶄鶅鶆鶇鶈鶉鶊鶋鶌鶍鶎鶏鶐鶑鶒鶓鶔鶕鶖鶗鶘鶙鶚鶛鶜鶝鶞鶟鶠鶡鶢鶣鶤鶥鶦鶧鶨鶩鶪鶫鶬鶭鶮鶯鶰",
     "鶱鶲鶳鶴鶵鶶鶷鶸鶹鶺鶻鶼鶽鶾鶿鷀鷁鷂鷃鷄鷅鷆鷇鷈鷉鷊鷋鷌鷍鷎鷏鷐鷑鷒鷓鷔鷕鷖鷗鷘鷙鷚鷛鷜鷝鷞鷟鷠鷡鷢鷣鷤鷥鷦鷧鷨鷩鷪鷫鷬",
     "鷭鷮鷯鷰鷱鷲鷳鷴鷵鷶鷷鷸鷹鷺鷻鷼鷽鷾鷿麀麁麂麃麄麅麆麇麈麉麊麋麌麍麎麏麐麑麒麓麔麕麖麗麘麙麚麛麜麝麞麟麠麡麢麣麤麥麦麧麨",
     "麩麪麫麬麭麮麯麰麱麲麳麴麵麶麷麸麹麺麻麼麽麾麿黀黁黂黃黄黅黆黇黈黉黊黋黌黍黎黏黐黑黒黓黔黕黖黗默黙黚黛黜黝點黟黠黡黢黣黤",
     "黥黦黧黨黩黪黫黬黭黮黯黰黱黲黳黴黵黶黷黸黹黺黻黼黽黾黿龀龁龂龃龄龅龆龇龈龉龊龋龌龍龎龏龐龑龒龓龔龕龖龗龘龙龚龛龜龝龞龟龠",
     "龡龢龣龤龥龦龧龨龩龪龫龬龭龮龯龰龱龲龳龴龵龶龷龸龹龺龻龼龽龾龿鿀鿁鿂鿃鿄鿅鿆鿇鿈鿉鿊鿋鿌鿍鿎鿏鿐鿑鿒鿓鿔鿕鿖鿗鿘鿙鿚鿛鿜",
     "鿝鿞鿟鿠鿡鿢鿣鿤鿥鿦鿧鿨鿩鿪鿫鿬鿭鿮鿯鿰鿱鿲鿳鿴鿵鿶鿷鿸鿹鿺鿻鿼鿽鿾鿿ꂀꂁꂂꂃꂄꂅꂆꂇꂈꂉꂊꂋꂌꂍꂎꂏꂐꂑꂒꂓꂔꂕꂖꂗꂘ",
     "ꂙꂚꂛꂜꂝꂞꂟꂠꂡꂢꂣꂤꂥꂦꂧꂨꂩꂪꂫꂬꂭꂮꂯꂰꂱꂲꂳꂴꂵꂶꂷꂸꂹꂺꂻꂼꂽꂾꂿꃀꃁꃂꃃꃄꃅꃆꃇꃈꃉꃊꃋꃌꃍꃎꃏꃐꃑꃒꃓꃔ",
     "ꃕꃖꃗꃘꃙꃚꃛꃜꃝꃞꃟꃠꃡꃢꃣꃤꃥꃦꃧꃨꃩꃪꃫꃬꃭꃮꃯꃰꃱꃲꃳꃴꃵꃶꃷꃸꃹꃺꃻꃼꃽꃾꃿꆀꆁꆂꆃꆄꆅꆆꆇꆈꆉꆊꆋꆌꆍꆎꆏꆐ",
     "ꆑꆒꆓꆔꆕꆖꆗꆘꆙꆚꆛꆜꆝꆞꆟꆠꆡꆢꆣꆤꆥꆦꆧꆨꆩꆪꆫꆬꆭꆮꆯꆰꆱꆲꆳꆴꆵꆶꆷꆸꆹꆺꆻꆼꆽꆾꆿꇀꇁꇂꇃꇄꇅꇆꇇꇈꇉꇊꇋꇌ",
     "ꇍꇎꇏꇐꇑꇒꇓꇔꇕꇖꇗꇘꇙꇚꇛꇜꇝꇞꇟꇠꇡꇢꇣꇤꇥꇦꇧꇨꇩꇪꇫꇬꇭꇮꇯꇰꇱꇲꇳꇴꇵꇶꇷꇸꇹꇺꇻꇼꇽꇾꇿꊀꊁꊂꊃꊄꊅꊆꊇꊈ",
     "ꊉꊊꊋꊌꊍꊎꊏꊐꊑꊒꊓꊔꊕꊖꊗꊘꊙꊚꊛꊜꊝꊞꊟꊠꊡꊢꊣꊤꊥꊦꊧꊨꊩꊪꊫꊬꊭꊮꊯꊰꊱꊲꊳꊴꊵꊶꊷꊸꊹꊺꊻꊼꊽꊾꊿꋀꋁꋂꋃꋄ",
     "ꋅꋆꋇꋈꋉꋊꋋꋌꋍꋎꋏꋐꋑꋒꋓꋔꋕꋖꋗꋘꋙꋚꋛꋜꋝꋞꋟꋠꋡꋢꋣꋤꋥꋦꋧꋨꋩꋪꋫꋬꋭꋮꋯꋰꋱꋲꋳꋴꋵꋶꋷꋸꋹꋺꋻꋼꋽꋾꋿꎀ",
     "ꎁꎂꎃꎄꎅꎆꎇꎈꎉꎊꎋꎌꎍꎎꎏꎐꎑꎒꎓꎔꎕꎖꎗꎘꎙꎚꎛꎜꎝꎞꎟꎠꎡꎢꎣꎤꎥꎦꎧꎨꎩꎪꎫꎬꎭꎮꎯꎰꎱꎲꎳꎴꎵꎶꎷꎸꎹꎺꎻꎼ",
     "ꎽꎾꎿꏀꏁꏂꏃꏄꏅꏆꏇꏈꏉꏊꏋꏌꏍꏎꏏꏐꏑꏒꏓꏔꏕꏖꏗꏘꏙꏚꏛꏜꏝꏞꏟꏠꏡꏢꏣꏤꏥꏦꏧꏨꏩꏪꏫꏬꏭꏮꏯꏰꏱꏲꏳꏴꏵꏶꏷꏸ",
     "ꏹꏺꏻꏼꏽꏾꏿꒀꒁꒂꒃꒄꒅꒆꒇꒈꒉꒊꒋꒌꓐꓑꓒꓓꓔꓕꓖꓗꓘꓙꓚꓛꓜꓝꓞꓟꓠꓡꓢꓣꓤꓥꓦꓧꓨꓩꓪꓫꓬꓭꓮꓯꓰꓱꓲꓳꓴꓵꓶꓷ",
     "ꓸꓹꓺꓻꓼꓽꖀꖁꖂꖃꖄꖅꖆꖇꖈꖉꖊꖋꖌꖍꖎꖏꖐꖑꖒꖓꖔꖕꖖꖗꖘꖙꖚꖛꖜꖝꖞꖟꖠꖡꖢꖣꖤꖥꖦꖧꖨꖩꖪꖫꖬꖭꖮꖯꖰꖱꖲꖳꖴꖵ",
     "ꖶꖷꖸꖹꖺꖻꖼꖽꖾꖿꗀꗁꗂꗃꗄꗅꗆꗇꗈꗉꗊꗋꗌꗍꗎꗏꗐꗑꗒꗓꗔꗕꗖꗗꗘꗙꗚꗛꗜꗝꗞꗟꗠꗡꗢꗣꗤꗥꗦꗧꗨꗩꗪꗫꗬꗭꗮꗯꗰꗱ",
     "ꗲꗳꗴꗵꗶꗷꗸꗹꗺꗻꗼꗽꗾꗿꚀꚁꚂꚃꚄꚅꚆꚇꚈꚉꚊꚋꚌꚍꚎꚏꚐꚑꚒꚓꚔꚕꚖꚗꚘꚙꚚꚛꚜꚝꚠꚡꚢꚣꚤꚥꚦꚧꚨꚩꚪꚫꚬꚭꚮꚯ",
     "ꚰꚱꚲꚳꚴꚵꚶꚷꚸꚹꚺꚻꚼꚽꚾꚿꛀꛁꛂꛃꛄꛅꛆꛇꛈꛉꛊꛋꛌꛍꛎꛏꛐꛑꛒꛓꛔꛕꛖꛗꛘꛙꛚꛛꛜꛝꛞꛟꛠꛡꛢꛣꛤꛥꛦꛧꛨꛩꛪꛫ",
     "ꛬꛭꛮꛯꞀꞁꞂꞃꞄꞅꞆꞇꞈꞋꞌꞍꞎꞏꞐꞑꞒꞓꞔꞕꞖꞗꞘꞙꞚꞛꞜꞝꞞꞟꞠꞡꞢꞣꞤꞥꞦꞧꞨꞩꞪꞫꞬꞭꞮꞯꞰꞱꞲꞳꞴꞵꞶꞷꞸꞹ",
     "ꞺꞻꞼꞽꞾꞿꟀꟁꟂꟃꟄꟅꟆꟇꟈꟉꟊꟐꟑꟓꟕꟖꟗꟘꟙꟲꟳꟴꟵꟶꟷꟸꟹꟺꟻꟼꟽꟾꟿꢂꢃꢄꢅꢆꢇꢈꢉꢊꢋꢌꢍꢎꢏꢐꢑꢒꢓꢔꢕꢖ",
     "ꢗꢘꢙꢚꢛꢜꢝꢞꢟꢠꢡꢢꢣꢤꢥꢦꢧꢨꢩꢪꢫꢬꢭꢮꢯꢰꢱꢲꢳ꣐꣑꣒꣓꣔꣕꣖꣗꣘꣙ꣲꣳꣴꣵꣶꣷꣻꣽꣾꦄꦅꦆꦇꦈꦉꦊꦋꦌꦍꦎꦏ",
     "ꦐꦑꦒꦓꦔꦕꦖꦗꦘꦙꦚꦛꦜꦝꦞꦟꦠꦡꦢꦣꦤꦥꦦꦧꦨꦩꦪꦫꦬꦭꦮꦯꦰꦱꦲꧏ꧐꧑꧒꧓꧔꧕꧖꧗꧘꧙ꧠꧡꧢꧣꧤꧦꧧꧨꧩꧪꧫꧬꧭꧮ",
     "ꧯ꧰꧱꧲꧳꧴꧵꧶꧷꧸꧹ꧺꧻꧼꧽꧾꪀꪁꪂꪃꪄꪅꪆꪇꪈꪉꪊꪋꪌꪍꪎꪏꪐꪑꪒꪓꪔꪕꪖꪗꪘꪙꪚꪛꪜꪝꪞꪟꪠꪡꪢꪣꪤꪥꪦꪧꪨꪩꪪꪫ",
     "ꪬꪭꪮꪯꪱꪵꪶꪹꪺꪻꪼꪽꫀꫂꫛꫜꫝꫠꫡꫢꫣꫤꫥꫦꫧꫨꫩꫪꫲꫳꫴꮀꮁꮂꮃꮄꮅꮆꮇꮈꮉꮊꮋꮌꮍꮎꮏꮐꮑꮒꮓꮔꮕꮖꮗꮘꮙꮚꮛꮜ",
     "ꮝꮞꮟꮠꮡꮢꮣꮤꮥꮦꮧꮨꮩꮪꮫꮬꮭꮮꮯꮰꮱꮲꮳꮴꮵꮶꮷꮸꮹꮺꮻꮼꮽꮾꮿꯀꯁꯂꯃꯄꯅꯆꯇꯈꯉꯊꯋꯌꯍꯎꯏꯐꯑꯒꯓꯔꯕꯖꯗꯘ",
     "ꯙꯚꯛꯜꯝꯞꯟꯠꯡꯢ꯰꯱꯲꯳꯴꯵꯶꯷꯸꯹검겁겂것겄겅겆겇겈겉겊겋게겍겎겏겐겑겒겓겔겕겖겗겘겙겚겛겜겝겞겟겠겡겢겣겤겥겦겧",
     "겨격겪겫견겭겮겯결겱겲겳겴겵겶겷겸겹겺겻겼경겾겿곀곁곂곃계곅곆곇곈곉곊곋곌곍곎곏곐곑곒곓곔곕곖곗곘곙곚곛곜곝곞곟고곡곢곣",
     "곤곥곦곧골곩곪곫곬곭곮곯곰곱곲곳곴공곶곷곸곹곺곻과곽곾곿궀궁궂궃궄궅궆궇궈궉궊궋권궍궎궏궐궑궒궓궔궕궖궗궘궙궚궛궜궝궞궟",
     "궠궡궢궣궤궥궦궧궨궩궪궫궬궭궮궯궰궱궲궳궴궵궶궷궸궹궺궻궼궽궾궿귀귁귂귃귄귅귆귇귈귉귊귋귌귍귎귏귐귑귒귓귔귕귖귗귘귙귚귛",
     "규귝귞귟균귡귢귣귤귥귦귧귨귩귪귫귬귭귮귯귰귱귲귳귴귵귶귷그극귺귻근귽귾귿꺀꺁꺂꺃꺄꺅꺆꺇꺈꺉꺊꺋꺌꺍꺎꺏꺐꺑꺒꺓꺔꺕꺖꺗",
     "꺘꺙꺚꺛꺜꺝꺞꺟꺠꺡꺢꺣꺤꺥꺦꺧꺨꺩꺪꺫꺬꺭꺮꺯꺰꺱꺲꺳꺴꺵꺶꺷꺸꺹꺺꺻꺼꺽꺾꺿껀껁껂껃껄껅껆껇껈껉껊껋껌껍껎껏껐껑껒껓",
     "껔껕껖껗께껙껚껛껜껝껞껟껠껡껢껣껤껥껦껧껨껩껪껫껬껭껮껯껰껱껲껳껴껵껶껷껸껹껺껻껼껽껾껿꾀꾁꾂꾃꾄꾅꾆꾇꾈꾉꾊꾋꾌꾍꾎꾏",
     "꾐꾑꾒꾓꾔꾕꾖꾗꾘꾙꾚꾛꾜꾝꾞꾟꾠꾡꾢꾣꾤꾥꾦꾧꾨꾩꾪꾫꾬꾭꾮꾯꾰꾱꾲꾳꾴꾵꾶꾷꾸꾹꾺꾻꾼꾽꾾꾿꿀꿁꿂꿃꿄꿅꿆꿇꿈꿉꿊꿋",
     "꿌꿍꿎꿏꿐꿑꿒꿓꿔꿕꿖꿗꿘꿙꿚꿛꿜꿝꿞꿟꿠꿡꿢꿣꿤꿥꿦꿧꿨꿩꿪꿫꿬꿭꿮꿯꿰꿱꿲꿳꿴꿵꿶꿷꿸꿹꿺꿻꿼꿽꿾꿿낀낁낂낃낄낅낆낇",
     "낈낉낊낋낌낍낎낏낐낑낒낓낔낕낖낗나낙낚낛난낝낞낟날낡낢낣낤낥낦낧남납낪낫났낭낮낯낰낱낲낳내낵낶낷낸낹낺낻낼낽낾낿냀냁냂냃",
     "냄냅냆냇냈냉냊냋냌냍냎냏냐냑냒냓냔냕냖냗냘냙냚냛냜냝냞냟냠냡냢냣냤냥냦냧냨냩냪냫냬냭냮냯냰냱냲냳냴냵냶냷냸냹냺냻냼냽냾냿",
     "놀놁놂놃놄놅놆놇놈놉놊놋놌농놎놏놐놑높놓놔놕놖놗놘놙놚놛놜놝놞놟놠놡놢놣놤놥놦놧놨놩놪놫놬놭놮놯놰놱놲놳놴놵놶놷놸놹놺놻",
     "놼놽놾놿뇀뇁뇂뇃뇄뇅뇆뇇뇈뇉뇊뇋뇌뇍뇎뇏뇐뇑뇒뇓뇔뇕뇖뇗뇘뇙뇚뇛뇜뇝뇞뇟뇠뇡뇢뇣뇤뇥뇦뇧뇨뇩뇪뇫뇬뇭뇮뇯뇰뇱뇲뇳뇴뇵뇶뇷",
     "뇸뇹뇺뇻뇼뇽뇾뇿늀늁늂늃늄늅늆늇늈늉늊늋늌늍늎늏느늑늒늓는늕늖늗늘늙늚늛늜늝늞늟늠늡늢늣늤능늦늧늨늩늪늫늬늭늮늯늰늱늲늳",
     "늴늵늶늷늸늹늺늻늼늽늾늿닀닁닂닃닄닅닆닇니닉닊닋닌닍닎닏닐닑닒닓닔닕닖닗님닙닚닛닜닝닞닟닠닡닢닣다닥닦닧단닩닪닫달닭닮닯",
     "닰닱닲닳담답닶닷닸당닺닻닼닽닾닿뎀뎁뎂뎃뎄뎅뎆뎇뎈뎉뎊뎋뎌뎍뎎뎏뎐뎑뎒뎓뎔뎕뎖뎗뎘뎙뎚뎛뎜뎝뎞뎟뎠뎡뎢뎣뎤뎥뎦뎧뎨뎩뎪뎫",
     "뎬뎭뎮뎯뎰뎱뎲뎳뎴뎵뎶뎷뎸뎹뎺뎻뎼뎽뎾뎿돀돁돂돃도독돆돇돈돉돊돋돌돍돎돏돐돑돒돓돔돕돖돗돘동돚돛돜돝돞돟돠돡돢돣돤돥돦돧",
     "돨돩돪돫돬돭돮돯돰돱돲돳돴돵돶돷돸돹돺돻돼돽돾돿뒀뒁뒂뒃뒄뒅뒆뒇뒈뒉뒊뒋뒌뒍뒎뒏뒐뒑뒒뒓뒔뒕뒖뒗뒘뒙뒚뒛뒜뒝뒞뒟뒠뒡뒢뒣",
     "뒤뒥뒦뒧뒨뒩뒪뒫뒬뒭뒮뒯뒰뒱뒲뒳뒴뒵뒶뒷뒸뒹뒺뒻뒼뒽뒾뒿듀듁듂듃듄듅듆듇듈듉듊듋듌듍듎듏듐듑듒듓듔듕듖듗듘듙듚듛드득듞듟",
     "든듡듢듣들듥듦듧듨듩듪듫듬듭듮듯듰등듲듳듴듵듶듷듸듹듺듻듼듽듾듿떀떁떂떃떄떅떆떇떈떉떊떋떌떍떎떏떐떑떒떓떔떕떖떗떘떙떚떛",
     "떜떝떞떟떠떡떢떣떤떥떦떧떨떩떪떫떬떭떮떯떰떱떲떳떴떵떶떷떸떹떺떻떼떽떾떿뗀뗁뗂뗃뗄뗅뗆뗇뗈뗉뗊뗋뗌뗍뗎뗏뗐뗑뗒뗓뗔뗕뗖뗗",
     "뗘뗙뗚뗛뗜뗝뗞뗟뗠뗡뗢뗣뗤뗥뗦뗧뗨뗩뗪뗫뗬뗭뗮뗯뗰뗱뗲뗳뗴뗵뗶뗷뗸뗹뗺뗻뗼뗽뗾뗿뚀뚁뚂뚃뚄뚅뚆뚇뚈뚉뚊뚋뚌뚍뚎뚏뚐뚑뚒뚓",
     "뚔뚕뚖뚗뚘뚙뚚뚛뚜뚝뚞뚟뚠뚡뚢뚣뚤뚥뚦뚧뚨뚩뚪뚫뚬뚭뚮뚯뚰뚱뚲뚳뚴뚵뚶뚷뚸뚹뚺뚻뚼뚽뚾뚿뛀뛁뛂뛃뛄뛅뛆뛇뛈뛉뛊뛋뛌뛍뛎뛏",
     "뛐뛑뛒뛓뛔뛕뛖뛗뛘뛙뛚뛛뛜뛝뛞뛟뛠뛡뛢뛣뛤뛥뛦뛧뛨뛩뛪뛫뛬뛭뛮뛯뛰뛱뛲뛳뛴뛵뛶뛷뛸뛹뛺뛻뛼뛽뛾뛿란랁랂랃랄랅랆랇랈랉랊랋",
     "람랍랎랏랐랑랒랓랔랕랖랗래랙랚랛랜랝랞랟랠랡랢랣랤랥랦랧램랩랪랫랬랭랮랯랰랱랲랳랴략랶랷랸랹랺랻랼랽랾랿럀럁럂럃럄럅럆럇",
     "럈량럊럋럌럍럎럏럐럑럒럓럔럕럖럗럘럙럚럛럜럝럞럟럠럡럢럣럤럥럦럧럨럩럪럫러럭럮럯런럱럲럳럴럵럶럷럸럹럺럻럼럽럾럿뢀뢁뢂뢃",
     "뢄뢅뢆뢇뢈뢉뢊뢋뢌뢍뢎뢏뢐뢑뢒뢓뢔뢕뢖뢗뢘뢙뢚뢛뢜뢝뢞뢟뢠뢡뢢뢣뢤뢥뢦뢧뢨뢩뢪뢫뢬뢭뢮뢯뢰뢱뢲뢳뢴뢵뢶뢷뢸뢹뢺뢻뢼뢽뢾뢿",
     "룀룁룂룃룄룅룆룇룈룉룊룋료룍룎룏룐룑룒룓룔룕룖룗룘룙룚룛룜룝룞룟룠룡룢룣룤룥룦룧루룩룪룫룬룭룮룯룰룱룲룳룴룵룶룷룸룹룺룻",
     "룼룽룾룿릀릁릂릃름릅릆릇릈릉릊릋릌릍릎릏릐릑릒릓릔릕릖릗릘릙릚릛릜릝릞릟릠릡릢릣릤릥릦릧릨릩릪릫리릭릮릯린릱릲릳릴릵릶릷",
     "릸릹릺릻림립릾릿맀링맂맃맄맅맆맇마막맊맋만맍많맏말맑맒맓맔맕맖맗맘맙맚맛맜망맞맟맠맡맢맣매맥맦맧맨맩맪맫맬맭맮맯맰맱맲맳",
     "맴맵맶맷맸맹맺맻맼맽맾맿몀몁몂몃몄명몆몇몈몉몊몋몌몍몎몏몐몑몒몓몔몕몖몗몘몙몚몛몜몝몞몟몠몡몢몣몤몥몦몧모목몪몫몬몭몮몯",
     "몰몱몲몳몴몵몶몷몸몹몺못몼몽몾몿뫀뫁뫂뫃뫄뫅뫆뫇뫈뫉뫊뫋뫌뫍뫎뫏뫐뫑뫒뫓뫔뫕뫖뫗뫘뫙뫚뫛뫜뫝뫞뫟뫠뫡뫢뫣뫤뫥뫦뫧뫨뫩뫪뫫",
     "뫬뫭뫮뫯뫰뫱뫲뫳뫴뫵뫶뫷뫸뫹뫺뫻뫼뫽뫾뫿뮀뮁뮂뮃뮄뮅뮆뮇뮈뮉뮊뮋뮌뮍뮎뮏뮐뮑뮒뮓뮔뮕뮖뮗뮘뮙뮚뮛뮜뮝뮞뮟뮠뮡뮢뮣뮤뮥뮦뮧",
     "뮨뮩뮪뮫뮬뮭뮮뮯뮰뮱뮲뮳뮴뮵뮶뮷뮸뮹뮺뮻뮼뮽뮾뮿므믁믂믃믄믅믆믇믈믉믊믋믌믍믎믏믐믑믒믓믔믕믖믗믘믙믚믛믜믝믞믟믠믡믢믣",
     "믤믥믦믧믨믩믪믫믬믭믮믯믰믱믲믳믴믵믶믷미믹믺믻민믽믾믿벀벁벂벃버벅벆벇번벉벊벋벌벍벎벏벐벑벒벓범법벖벗벘벙벚벛벜벝벞벟",
     "베벡벢벣벤벥벦벧벨벩벪벫벬벭벮벯벰벱벲벳벴벵벶벷벸벹벺벻벼벽벾벿변볁볂볃별볅볆볇볈볉볊볋볌볍볎볏볐병볒볓볔볕볖볗볘볙볚볛",
     "볜볝볞볟볠볡볢볣볤볥볦볧볨볩볪볫볬볭볮볯볰볱볲볳보복볶볷본볹볺볻볼볽볾볿부북붂붃분붅붆붇불붉붊붋붌붍붎붏붐붑붒붓붔붕붖붗",
     "붘붙붚붛붜붝붞붟붠붡붢붣붤붥붦붧붨붩붪붫붬붭붮붯붰붱붲붳붴붵붶붷붸붹붺붻붼붽붾붿뷀뷁뷂뷃뷄뷅뷆뷇뷈뷉뷊뷋뷌뷍뷎뷏뷐뷑뷒뷓",
     "뷔뷕뷖뷗뷘뷙뷚뷛뷜뷝뷞뷟뷠뷡뷢뷣뷤뷥뷦뷧뷨뷩뷪뷫뷬뷭뷮뷯뷰뷱뷲뷳뷴뷵뷶뷷뷸뷹뷺뷻뷼뷽뷾뷿뺀뺁뺂뺃뺄뺅뺆뺇뺈뺉뺊뺋뺌뺍뺎뺏",
     "뺐뺑뺒뺓뺔뺕뺖뺗뺘뺙뺚뺛뺜뺝뺞뺟뺠뺡뺢뺣뺤뺥뺦뺧뺨뺩뺪뺫뺬뺭뺮뺯뺰뺱뺲뺳뺴뺵뺶뺷뺸뺹뺺뺻뺼뺽뺾뺿뻀뻁뻂뻃뻄뻅뻆뻇뻈뻉뻊뻋",
     "뻌뻍뻎뻏뻐뻑뻒뻓뻔뻕뻖뻗뻘뻙뻚뻛뻜뻝뻞뻟뻠뻡뻢뻣뻤뻥뻦뻧뻨뻩뻪뻫뻬뻭뻮뻯뻰뻱뻲뻳뻴뻵뻶뻷뻸뻹뻺뻻뻼뻽뻾뻿뾀뾁뾂뾃뾄뾅뾆뾇",
     "뾈뾉뾊뾋뾌뾍뾎뾏뾐뾑뾒뾓뾔뾕뾖뾗뾘뾙뾚뾛뾜뾝뾞뾟뾠뾡뾢뾣뾤뾥뾦뾧뾨뾩뾪뾫뾬뾭뾮뾯뾰뾱뾲뾳뾴뾵뾶뾷뾸뾹뾺뾻뾼뾽뾾뾿뿀뿁뿂뿃",
     "뿄뿅뿆뿇뿈뿉뿊뿋뿌뿍뿎뿏뿐뿑뿒뿓뿔뿕뿖뿗뿘뿙뿚뿛뿜뿝뿞뿟뿠뿡뿢뿣뿤뿥뿦뿧뿨뿩뿪뿫뿬뿭뿮뿯뿰뿱뿲뿳뿴뿵뿶뿷뿸뿹뿺뿻뿼뿽뿾뿿",
     "삀삁삂삃삄삅삆삇삈삉삊삋삌삍삎삏삐삑삒삓삔삕삖삗삘삙삚삛삜삝삞삟삠삡삢삣삤삥삦삧삨삩삪삫사삭삮삯산삱삲삳살삵삶삷삸삹삺삻",
     "삼삽삾삿샀상샂샃샄샅샆샇새색샊샋샌샍샎샏샐샑샒샓샔샕샖샗샘샙샚샛샜생샞샟샠샡샢샣샤샥샦샧샨샩샪샫샬샭샮샯샰샱샲샳샴샵샶샷",
     "샸샹샺샻샼샽샾샿솀솁솂솃솄솅솆솇솈솉솊솋소속솎솏손솑솒솓솔솕솖솗솘솙솚솛솜솝솞솟솠송솢솣솤솥솦솧솨솩솪솫솬솭솮솯솰솱솲솳",
     "솴솵솶솷솸솹솺솻솼솽솾솿쇀쇁쇂쇃쇄쇅쇆쇇쇈쇉쇊쇋쇌쇍쇎쇏쇐쇑쇒쇓쇔쇕쇖쇗쇘쇙쇚쇛쇜쇝쇞쇟쇠쇡쇢쇣쇤쇥쇦쇧쇨쇩쇪쇫쇬쇭쇮쇯",
     "쇰쇱쇲쇳쇴쇵쇶쇷쇸쇹쇺쇻쇼쇽쇾쇿슀슁슂슃슄슅슆슇슈슉슊슋슌슍슎슏슐슑슒슓슔슕슖슗슘슙슚슛슜슝슞슟슠슡슢슣스슥슦슧슨슩슪슫",
     "슬슭슮슯슰슱슲슳슴습슶슷슸승슺슻슼슽슾슿싀싁싂싃싄싅싆싇싈싉싊싋싌싍싎싏싐싑싒싓싔싕싖싗싘싙싚싛시식싞싟신싡싢싣실싥싦싧",
     "싨싩싪싫심십싮싯싰싱싲싳싴싵싶싷싸싹싺싻싼싽싾싿쎀쎁쎂쎃쎄쎅쎆쎇쎈쎉쎊쎋쎌쎍쎎쎏쎐쎑쎒쎓쎔쎕쎖쎗쎘쎙쎚쎛쎜쎝쎞쎟쎠쎡쎢쎣",
     "쎤쎥쎦쎧쎨쎩쎪쎫쎬쎭쎮쎯쎰쎱쎲쎳쎴쎵쎶쎷쎸쎹쎺쎻쎼쎽쎾쎿쏀쏁쏂쏃쏄쏅쏆쏇쏈쏉쏊쏋쏌쏍쏎쏏쏐쏑쏒쏓쏔쏕쏖쏗쏘쏙쏚쏛쏜쏝쏞쏟",
     "쏠쏡쏢쏣쏤쏥쏦쏧쏨쏩쏪쏫쏬쏭쏮쏯쏰쏱쏲쏳쏴쏵쏶쏷쏸쏹쏺쏻쏼쏽쏾쏿쒀쒁쒂쒃쒄쒅쒆쒇쒈쒉쒊쒋쒌쒍쒎쒏쒐쒑쒒쒓쒔쒕쒖쒗쒘쒙쒚쒛",
     "쒜쒝쒞쒟쒠쒡쒢쒣쒤쒥쒦쒧쒨쒩쒪쒫쒬쒭쒮쒯쒰쒱쒲쒳쒴쒵쒶쒷쒸쒹쒺쒻쒼쒽쒾쒿쓀쓁쓂쓃쓄쓅쓆쓇쓈쓉쓊쓋쓌쓍쓎쓏쓐쓑쓒쓓쓔쓕쓖쓗",
     "쓘쓙쓚쓛쓜쓝쓞쓟쓠쓡쓢쓣쓤쓥쓦쓧쓨쓩쓪쓫쓬쓭쓮쓯쓰쓱쓲쓳쓴쓵쓶쓷쓸쓹쓺쓻쓼쓽쓾쓿얀얁얂얃얄얅얆얇얈얉얊얋얌얍얎얏얐양얒얓",
     "얔얕얖얗얘얙얚얛얜얝얞얟얠얡얢얣얤얥얦얧얨얩얪얫얬얭얮얯얰얱얲얳어억얶얷언얹얺얻얼얽얾얿엀엁엂엃엄업없엇었엉엊엋엌엍엎엏",
     "에엑엒엓엔엕엖엗엘엙엚엛엜엝엞엟엠엡엢엣엤엥엦엧엨엩엪엫여역엮엯연엱엲엳열엵엶엷엸엹엺엻염엽엾엿욀욁욂욃욄욅욆욇욈욉욊욋",
     "욌욍욎욏욐욑욒욓요욕욖욗욘욙욚욛욜욝욞욟욠욡욢욣욤욥욦욧욨용욪욫욬욭욮욯우욱욲욳운욵욶욷울욹욺욻욼욽욾욿움웁웂웃웄웅웆웇",
     "웈웉웊웋워웍웎웏원웑웒웓월웕웖웗웘웙웚웛웜웝웞웟웠웡웢웣웤웥웦웧웨웩웪웫웬웭웮웯웰웱웲웳웴웵웶웷웸웹웺웻웼웽웾웿잀잁잂잃",
     "임입잆잇있잉잊잋잌잍잎잏자작잒잓잔잕잖잗잘잙잚잛잜잝잞잟잠잡잢잣잤장잦잧잨잩잪잫재잭잮잯잰잱잲잳잴잵잶잷잸잹잺잻잼잽잾잿",
     "쟀쟁쟂쟃쟄쟅쟆쟇쟈쟉쟊쟋쟌쟍쟎쟏쟐쟑쟒쟓쟔쟕쟖쟗쟘쟙쟚쟛쟜쟝쟞쟟쟠쟡쟢쟣쟤쟥쟦쟧쟨쟩쟪쟫쟬쟭쟮쟯쟰쟱쟲쟳쟴쟵쟶쟷쟸쟹쟺쟻",
     "쟼쟽쟾쟿좀좁좂좃좄종좆좇좈좉좊좋좌좍좎좏좐좑좒좓좔좕좖좗좘좙좚좛좜좝좞좟좠좡좢좣좤좥좦좧좨좩좪좫좬좭좮좯좰좱좲좳좴좵좶좷",
     "좸좹좺좻좼좽좾좿죀죁죂죃죄죅죆죇죈죉죊죋죌죍죎죏죐죑죒죓죔죕죖죗죘죙죚죛죜죝죞죟죠죡죢죣죤죥죦죧죨죩죪죫죬죭죮죯죰죱죲죳",
     "죴죵죶죷죸죹죺죻주죽죾죿즀즁즂즃즄즅즆즇즈즉즊즋즌즍즎즏즐즑즒즓즔즕즖즗즘즙즚즛즜증즞즟즠즡즢즣즤즥즦즧즨즩즪즫즬즭즮즯",
     "즰즱즲즳즴즵즶즷즸즹즺즻즼즽즾즿지직짂짃진짅짆짇질짉짊짋짌짍짎짏짐집짒짓짔징짖짗짘짙짚짛짜짝짞짟짠짡짢짣짤짥짦짧짨짩짪짫",
     "짬짭짮짯짰짱짲짳짴짵짶짷째짹짺짻짼짽짾짿쪀쪁쪂쪃쪄쪅쪆쪇쪈쪉쪊쪋쪌쪍쪎쪏쪐쪑쪒쪓쪔쪕쪖쪗쪘쪙쪚쪛쪜쪝쪞쪟쪠쪡쪢쪣쪤쪥쪦쪧",
     "쪨쪩쪪쪫쪬쪭쪮쪯쪰쪱쪲쪳쪴쪵쪶쪷쪸쪹쪺쪻쪼쪽쪾쪿쫀쫁쫂쫃쫄쫅쫆쫇쫈쫉쫊쫋쫌쫍쫎쫏쫐쫑쫒쫓쫔쫕쫖쫗쫘쫙쫚쫛쫜쫝쫞쫟쫠쫡쫢쫣",
     "쫤쫥쫦쫧쫨쫩쫪쫫쫬쫭쫮쫯쫰쫱쫲쫳쫴쫵쫶쫷쫸쫹쫺쫻쫼쫽쫾쫿쮀쮁쮂쮃쮄쮅쮆쮇쮈쮉쮊쮋쮌쮍쮎쮏쮐쮑쮒쮓쮔쮕쮖쮗쮘쮙쮚쮛쮜쮝쮞쮟",
     "쮠쮡쮢쮣쮤쮥쮦쮧쮨쮩쮪쮫쮬쮭쮮쮯쮰쮱쮲쮳쮴쮵쮶쮷쮸쮹쮺쮻쮼쮽쮾쮿쯀쯁쯂쯃쯄쯅쯆쯇쯈쯉쯊쯋쯌쯍쯎쯏쯐쯑쯒쯓쯔쯕쯖쯗쯘쯙쯚쯛",
     "쯜쯝쯞쯟쯠쯡쯢쯣쯤쯥쯦쯧쯨쯩쯪쯫쯬쯭쯮쯯쯰쯱쯲쯳쯴쯵쯶쯷쯸쯹쯺쯻쯼쯽쯾쯿첀첁첂첃첄첅첆첇첈첉첊첋첌첍첎첏첐첑첒첓첔첕첖첗",
     "처척첚첛천첝첞첟철첡첢첣첤첥첦첧첨첩첪첫첬청첮첯첰첱첲첳체첵첶첷첸첹첺첻첼첽첾첿쳀쳁쳂쳃쳄쳅쳆쳇쳈쳉쳊쳋쳌쳍쳎쳏쳐쳑쳒쳓",
     "쳔쳕쳖쳗쳘쳙쳚쳛쳜쳝쳞쳟쳠쳡쳢쳣쳤쳥쳦쳧쳨쳩쳪쳫쳬쳭쳮쳯쳰쳱쳲쳳쳴쳵쳶쳷쳸쳹쳺쳻쳼쳽쳾쳿춀춁춂춃춄춅춆춇춈춉춊춋춌춍춎춏",
     "춐춑춒춓추축춖춗춘춙춚춛출춝춞춟춠춡춢춣춤춥춦춧춨충춪춫춬춭춮춯춰춱춲춳춴춵춶춷춸춹춺춻춼춽춾춿췀췁췂췃췄췅췆췇췈췉췊췋",
     "췌췍췎췏췐췑췒췓췔췕췖췗췘췙췚췛췜췝췞췟췠췡췢췣췤췥췦췧취췩췪췫췬췭췮췯췰췱췲췳췴췵췶췷췸췹췺췻췼췽췾췿캀캁캂캃캄캅캆캇",
     "캈캉캊캋캌캍캎캏캐캑캒캓캔캕캖캗캘캙캚캛캜캝캞캟캠캡캢캣캤캥캦캧캨캩캪캫캬캭캮캯캰캱캲캳캴캵캶캷캸캹캺캻캼캽캾캿컀컁컂컃",
     "컄컅컆컇컈컉컊컋컌컍컎컏컐컑컒컓컔컕컖컗컘컙컚컛컜컝컞컟컠컡컢컣커컥컦컧컨컩컪컫컬컭컮컯컰컱컲컳컴컵컶컷컸컹컺컻컼컽컾컿",
     "쾀쾁쾂쾃쾄쾅쾆쾇쾈쾉쾊쾋쾌쾍쾎쾏쾐쾑쾒쾓쾔쾕쾖쾗쾘쾙쾚쾛쾜쾝쾞쾟쾠쾡쾢쾣쾤쾥쾦쾧쾨쾩쾪쾫쾬쾭쾮쾯쾰쾱쾲쾳쾴쾵쾶쾷쾸쾹쾺쾻",
     "쾼쾽쾾쾿쿀쿁쿂쿃쿄쿅쿆쿇쿈쿉쿊쿋쿌쿍쿎쿏쿐쿑쿒쿓쿔쿕쿖쿗쿘쿙쿚쿛쿜쿝쿞쿟쿠쿡쿢쿣쿤쿥쿦쿧쿨쿩쿪쿫쿬쿭쿮쿯쿰쿱쿲쿳쿴쿵쿶쿷",
     "쿸쿹쿺쿻쿼쿽쿾쿿킀킁킂킃킄킅킆킇킈킉킊킋킌킍킎킏킐킑킒킓킔킕킖킗킘킙킚킛킜킝킞킟킠킡킢킣키킥킦킧킨킩킪킫킬킭킮킯킰킱킲킳",
     "킴킵킶킷킸킹킺킻킼킽킾킿타탁탂탃탄탅탆탇탈탉탊탋탌탍탎탏탐탑탒탓탔탕탖탗탘탙탚탛태택탞탟탠탡탢탣탤탥탦탧탨탩탪탫탬탭탮탯",
     "탰탱탲탳탴탵탶탷탸탹탺탻탼탽탾탿톀톁톂톃톄톅톆톇톈톉톊톋톌톍톎톏톐톑톒톓톔톕톖톗톘톙톚톛톜톝톞톟토톡톢톣톤톥톦톧톨톩톪톫",
     "톬톭톮톯톰톱톲톳톴통톶톷톸톹톺톻톼톽톾톿퇀퇁퇂퇃퇄퇅퇆퇇퇈퇉퇊퇋퇌퇍퇎퇏퇐퇑퇒퇓퇔퇕퇖퇗퇘퇙퇚퇛퇜퇝퇞퇟퇠퇡퇢퇣퇤퇥퇦퇧",
     "퇨퇩퇪퇫퇬퇭퇮퇯퇰퇱퇲퇳퇴퇵퇶퇷퇸퇹퇺퇻퇼퇽퇾퇿튀튁튂튃튄튅튆튇튈튉튊튋튌튍튎튏튐튑튒튓튔튕튖튗튘튙튚튛튜튝튞튟튠튡튢튣",
     "튤튥튦튧튨튩튪튫튬튭튮튯튰튱튲튳튴튵튶튷트특튺튻튼튽튾튿틀틁틂틃틄틅틆틇틈틉틊틋틌틍틎틏틐틑틒틓틔틕틖틗틘틙틚틛틜틝틞틟",
     "틠틡틢틣틤틥틦틧틨틩틪틫틬틭틮틯티틱틲틳틴틵틶틷틸틹틺틻틼틽틾틿펀펁펂펃펄펅펆펇펈펉펊펋펌펍펎펏펐펑펒펓펔펕펖펗페펙펚펛",
     "펜펝펞펟펠펡펢펣펤펥펦펧펨펩펪펫펬펭펮펯펰펱펲펳펴펵펶펷편펹펺펻펼펽펾펿폀폁폂폃폄폅폆폇폈평폊폋폌폍폎폏폐폑폒폓폔폕폖폗",
     "폘폙폚폛폜폝폞폟폠폡폢폣폤폥폦폧폨폩폪폫포폭폮폯폰폱폲폳폴폵폶폷폸폹폺폻폼폽폾폿풀풁풂풃풄풅풆풇품풉풊풋풌풍풎풏풐풑풒풓",
     "풔풕풖풗풘풙풚풛풜풝풞풟풠풡풢풣풤풥풦풧풨풩풪풫풬풭풮풯풰풱풲풳풴풵풶풷풸풹풺풻풼풽풾풿퓀퓁퓂퓃퓄퓅퓆퓇퓈퓉퓊퓋퓌퓍퓎퓏",
     "퓐퓑퓒퓓퓔퓕퓖퓗퓘퓙퓚퓛퓜퓝퓞퓟퓠퓡퓢퓣퓤퓥퓦퓧퓨퓩퓪퓫퓬퓭퓮퓯퓰퓱퓲퓳퓴퓵퓶퓷퓸퓹퓺퓻퓼퓽퓾퓿햀햁햂햃햄햅햆햇했행햊햋",
     "햌햍햎햏햐햑햒햓햔햕햖햗햘햙햚햛햜햝햞햟햠햡햢햣햤향햦햧햨햩햪햫햬햭햮햯햰햱햲햳햴햵햶햷햸햹햺햻햼햽햾햿헀헁헂헃헄헅헆헇",
     "허헉헊헋헌헍헎헏헐헑헒헓헔헕헖헗험헙헚헛헜헝헞헟헠헡헢헣헤헥헦헧헨헩헪헫헬헭헮헯헰헱헲헳헴헵헶헷헸헹헺헻헼헽헾헿횀횁횂횃",
     "횄횅횆횇횈횉횊횋회획횎횏횐횑횒횓횔횕횖횗횘횙횚횛횜횝횞횟횠횡횢횣횤횥횦횧효횩횪횫횬횭횮횯횰횱횲횳횴횵횶횷횸횹횺횻횼횽횾횿",
     "훀훁훂훃후훅훆훇훈훉훊훋훌훍훎훏훐훑훒훓훔훕훖훗훘훙훚훛훜훝훞훟훠훡훢훣훤훥훦훧훨훩훪훫훬훭훮훯훰훱훲훳훴훵훶훷훸훹훺훻",
     "훼훽훾훿힀힁힂힃힄힅힆힇히힉힊힋힌힍힎힏힐힑힒힓힔힕힖힗힘힙힚힛힜힝힞힟힠힡힢힣ힰힱힲힳힴힵힶힷힸힹힺힻힼힽힾힿퟀퟁퟂퟃ",
     "ퟄퟅퟆퟋퟌퟍퟎퟏퟐퟑퟒퟓퟔퟕퟖퟗퟘퟙퟚퟛퟜퟝퟞퟟퟠퟡퟢퟣퟤퟥퟦퟧퟨퟩퟪퟫퟬퟭퟮퟯퟰퟱퟲퟳퟴퟵퟶퟷퟸퟹퟺퟻ呂女廬旅濾礪閭驪",
     "麗黎力曆歷轢年憐戀撚漣煉璉秊練聯輦蓮連鍊列劣咽烈裂說廉念捻殮簾獵令囹寧嶺怜玲瑩羚聆鈴零靈領例禮醴隸惡了僚寮尿料樂燎療蓼遼",
     "龍暈阮劉杻柳流溜琉留硫紐類六戮陸倫崙淪輪律慄栗率隆利吏履易李梨泥理痢罹裏裡里離匿溺吝燐璘藺隣鱗麟林淋臨立笠粒狀炙識什茶刺",
     "婢嬨廒廙彩徭惘慎愈憎慠懲戴揄搜摒敖晴朗望杖歹殺流滛滋漢瀞煮瞧爵犯猪瑱甆画瘝瘟益盛直睊着磌窱節类絛練缾者荒華蝹襁覆視調諸請",
     "謁諾諭謹變贈輸遲醙鉶陼難靖韛響頋頻鬒龜𢡊𢡄𣏕㮝䀘䀹𥉉𥳐𧻓齃龎ﮀﮁﮂﮃﮄﮅﮆﮇﮈﮉﮊﮋﮌﮍﮎﮏﮐﮑﮒﮓﮔﮕﮖﮗﮘﮙﮚﮛﮜﮝ",
     "ﮞﮟﮠﮡﮢﮣﮤﮥﮦﮧﮨﮩﮪﮫﮬﮭﮮﮯﮰﮱﯓﯔﯕﯖﯗﯘﯙﯚﯛﯜﯝﯞﯟﯠﯡﯢﯣﯤﯥﯦﯧﯨﯩﯪﯫﯬﯭﯮﯯﯰﯱﯲﯳﯴﯵﯶﯷﯸﯹﯺ",
     "ﯻﯼﯽﯾﯿﲀﲁﲂﲃﲄﲅﲆﲇﲈﲉﲊﲋﲌﲍﲎﲏﲐﲑﲒﲓﲔﲕﲖﲗﲘﲙﲚﲛﲜﲝﲞﲟﲠﲡﲢﲣﲤﲥﲦﲧﲨﲩﲪﲫﲬﲭﲮﲯﲰﲱﲲﲳﲴﲵﲶ",
     "ﲷﲸﲹﲺﲻﲼﲽﲾﲿﳀﳁﳂﳃﳄﳅﳆﳇﳈﳉﳊﳋﳌﳍﳎﳏﳐﳑﳒﳓﳔﳕﳖﳗﳘﳙﳚﳛﳜﳝﳞﳟﳠﳡﳢﳣﳤﳥﳦﳧﳨﳩﳪﳫﳬﳭﳮﳯﳰﳱﳲ",
     "ﳳﳴﳵﳶﳷﳸﳹﳺﳻﳼﳽﳾﳿﶀﶁﶂﶃﶄﶅﶆﶇﶈﶉﶊﶋﶌﶍﶎﶏﶒﶓﶔﶕﶖﶗﶘﶙﶚﶛﶜﶝﶞﶟﶠﶡﶢﶣﶤﶥﶦﶧﶨﶩﶪﶫﶬﶭﶮﶯﶰ",
     "ﶱﶲﶳﶴﶵﶶﶷﶸﶹﶺﶻﶼﶽﶾﶿﷀﷁﷂﷃﷄﷅﷆﷇﷰﷱﷲﷳﷴﷵﷶﷷﷸﷹﷺﷻﺀﺁﺂﺃﺄﺅﺆﺇﺈﺉﺊﺋﺌﺍﺎﺏﺐﺑﺒﺓﺔﺕﺖﺗﺘ",
     "ﺙﺚﺛﺜﺝﺞﺟﺠﺡﺢﺣﺤﺥﺦﺧﺨﺩﺪﺫﺬﺭﺮﺯﺰﺱﺲﺳﺴﺵﺶﺷﺸﺹﺺﺻﺼﺽﺾﺿﻀﻁﻂﻃﻄﻅﻆﻇﻈﻉﻊﻋﻌﻍﻎﻏﻐﻑﻒﻓﻔ",
     "ﻕﻖﻗﻘﻙﻚﻛﻜﻝﻞﻟﻠﻡﻢﻣﻤﻥﻦﻧﻨﻩﻪﻫﻬﻭﻮﻯﻰﻱﻲﻳﻴﻵﻶﻷﻸﻹﻺﻻﻼﾀﾁﾂﾃﾄﾅﾆﾇﾈﾉﾊﾋﾌﾍﾎﾏﾐﾑﾒﾓ",
     "ﾔﾕﾖﾗﾘﾙﾚﾛﾜﾝﾞﾟﾠﾡﾢﾣﾤﾥﾦﾧﾨﾩﾪﾫﾬﾭﾮﾯﾰﾱﾲﾳﾴﾵﾶﾷﾸﾹﾺﾻﾼﾽﾾￂￃￄￅￆￇￊￋￌￍￎￏￒￓￔￕￖ",
     "ￗￚￛￜ"}}

\* [a-zA-Z_]
IdentStart == CharsOf(LowerAlpha) \cup CharsOf(UpperAlpha) \cup {"_"}

\* What str.strip / str.lstrip / str.split() and \s of a str pattern treat
\* as whitespace, as far as a string of this module can hold it: the five
\* characters with an escape, then U+000B, U+001C to U+001F, U+0085, U+00A0
\* and U+1680 written as themselves.  The other Unicode spaces (U+2000 to
\* U+200A, U+2028, U+2029, U+202F, U+205F, U+3000) cannot be written in a
\* string here, so no text of the model holds one.
Whitespace ==
    {" ", "\t", "\n", "\r", "\f",
     "", "", "", "", "", "", " ", " "}

StartsWithAt(s, pos, lit) ==
    /\ pos >= 1
    /\ pos + Len(lit) - 1 <= Len(s)
    /\ SubSeq(s, pos, pos + Len(lit) - 1) = lit

StartsWith(s, lit) == StartsWithAt(s, 1, lit)

EndsWith(s, suf) == Len(suf) <= Len(s) /\ StartsWithAt(s, Len(s) - Len(suf) + 1, suf)

RECURSIVE Concat(_, _, _)
\* parts[lo] \o ... \o parts[hi], by halves
Concat(parts, lo, hi) ==
    IF lo > hi THEN ""
    ELSE IF lo = hi THEN parts[lo]
    ELSE LET mid == (lo + hi) \div 2
         IN  Concat(parts, lo, mid) \o Concat(parts, mid + 1, hi)

\* "".join(parts)
JoinAll(parts) == Concat(parts, 1, Len(parts))

\* the least element of a non-empty set of positions
MinOf(ps) == CHOOSE p \in ps : \A q \in ps : p <= q

\* the first position >= pos at which sub occurs in s, 0 when there is none
FindFrom(s, sub, pos) ==
    LET occ == {i \in pos..Len(s) : StartsWithAt(s, i, sub)}
    IN  IF occ = {} THEN 0 ELSE MinOf(occ)

\* sub in s
In(sub, s) == Len(sub) = 0 \/ FindFrom(s, sub, 1) # 0

RECURSIVE ReplaceFrom(_, _, _, _)
\* str.replace(old, new) for a non-empty old from pos on: the leftmost
\* occurrence, then the next one after it, and so on
ReplaceFrom(s, old, new, pos) ==
    LET i == FindFrom(s, old, pos)
    IN  IF i = 0 THEN SubSeq(s, pos, Len(s))
        ELSE SubSeq(s, pos, i - 1) \o new \o ReplaceFrom(s, old, new, i + Len(old))

\* str.replace(old, new); an empty old matches before every character and at
\* the end
Replace(s, old, new) ==
    IF old = ""
    THEN JoinAll([i \in 1..(Len(s) + 1) |-> IF i <= Len(s) THEN new \o Char(s, i) ELSE new])
    ELSE ReplaceFrom(s, old, new, 1)

\* the first position >= pos that is past s or holds a character in stop
FirstIn(s, pos, stop) ==
    LET ends == {i \in pos..Len(s) : Char(s, i) \in stop}
    IN  IF ends = {} THEN Len(s) + 1 ELSE MinOf(ends)

\* the first position >= pos that is past s or holds a character not in skip
FirstNotIn(s, pos, skip) ==
    LET ends == {i \in pos..Len(s) : Char(s, i) \notin skip}
    IN  IF ends = {} THEN Len(s) + 1 ELSE MinOf(ends)

\* the positions of s that hold the character sep
SepPositions(s, sep) == {i \in 1..Len(s) : Char(s, i) = sep}

\* the k-th smallest element of a set of positions; 0 for k = 0
NthPosition(ps, k) ==
    IF k = 0 THEN 0 ELSE CHOOSE p \in ps : Cardinality({q \in ps : q < p}) = k - 1

\* str.split(sep) for a one-character sep: the pieces between the separators
Split(s, sep) ==
    LET ps == SepPositions(s, sep)
        n == Cardinality(ps)
    IN  [k \in 1..(n + 1) |->
            SubSeq(s, NthPosition(ps, k - 1) + 1,
                      IF k = n + 1 THEN Len(s) ELSE NthPosition(ps, k) - 1)]

RECURSIVE JoinRange(_, _, _, _)
\* parts[lo], sep, ..., sep, parts[hi], by halves
JoinRange(parts, sep, lo, hi) ==
    IF lo > hi THEN ""
    ELSE IF lo = hi THEN parts[lo]
    ELSE LET mid == (lo + hi) \div 2
         IN  JoinRange(parts, sep, lo, mid) \o sep \o JoinRange(parts, sep, mid + 1, hi)

\* sep.join(parts)
Join(parts, sep) == JoinRange(parts, sep, 1, Len(parts))

\* number of whitespace characters s has from position pos on
LeadingWs(s, pos) == FirstNotIn(s, pos, Whitespace) - pos

\* number of whitespace characters s ends with
TrailingWs(s) ==
    LET keep == {i \in 1..Len(s) : Char(s, i) \notin Whitespace}
    IN  IF keep = {} THEN Len(s) ELSE Len(s) - (CHOOSE p \in keep : \A q \in keep : q <= p)

\* str.lstrip()
LStrip(s) == SubSeq(s, LeadingWs(s, 1) + 1, Len(s))

\* str.strip()
Strip(s) == SubSeq(s, LeadingWs(s, 1) + 1, Len(s) - TrailingWs(s))

RECURSIVE SplitWsFrom(_, _)
\* str.split() with no argument: the maximal runs of non-whitespace
SplitWsFrom(s, pos) ==
    LET p == FirstNotIn(s, pos, Whitespace)
        e == FirstIn(s, p, Whitespace)
    IN  IF p > Len(s) THEN <<>>
        ELSE <<SubSeq(s, p, e - 1)>> \o SplitWsFrom(s, e)

SplitWs(s) == SplitWsFrom(s, 1)

\* the characters above U+007F that str.lower() changes, but capital sigma;
\* SmallRows holds at the same place what it changes each of them to
CapitalRows ==
    "ÀÁÂÃÄÅÆÇÈÉÊËÌÍÎÏÐÑÒÓÔÕÖØÙÚÛÜÝÞƂƄƇƋƎƑƘƠƢƤƦƧƩƬƮƯƱƲƳƵƷƸƼǄǅǇǈǊǋǍ"
    \o "ǏǑǓǕǗǙǛǞǠǢǤǦǨǪǬǮǱǲǴǶǷǸǺǼǾΆΈΉΊΌΎΏΑΒΓΔΕΖΗΘΙΚΛΜΝΞΟΠΡΤΥΦΧΨΩΪΫϏϘϚ"
    \o "ϜϞϠϢϤϦϨϪϬϮϴϷϹϺҀҊҌҎҐҒҔҖҘҚҜҞҠҢҤҦҨҪҬҮҰҲҴҶҸҺҼҾӀӁӃӅӇӉӋӍӐӒӔӖӘӚӜӞӠӢ"
    \o "ӤӦӨӪӬӮӰӲӴӶӸӺӼӾᎰᎱᎲᎳᎴᎵᎶᎷᎸᎹᎺᎻᎼᎽᎾᎿᏀᏁᏂᏃᏄᏅᏆᏇᏈᏉᏊᏋᏌᏍᏎᏏᏐᏑᏒᏓᏔᏕᏖᏗᏘᏙᏚᏛᏜᏝ"
    \o "ᏞᏟᏠᏡᏢᏣᏤᏥᏦᏧᏨᏩᏪᏫᏬᏭᏮᏯᏰᏱᏲᏳᏴᏵᲐᲑᲒᲓᲔᲕᲖᲗᲘᲙᲚᲛᲜᲝᲞᲟᲠᲡᲢᲣᲤᲥᲦᲧᲨᲩᲪᲫᲬᲭᲮᲯᲰᲱᲲᲳ"
    \o "ᲴᲵᲶᲷᲸᲹᲺᲽᲾᲿẀẂẄẆẈẊẌẎẐẒẔẞẠẢẤẦẨẪẬẮẰẲẴẶẸẺẼẾỀỂỄỆỈỊỌỎỐỒỔỖỘỚỜỞỠỢỤỦỨỪ"
    \o "ỬỮỰỲỴỶỸỺỼỾᾈᾉᾊᾋᾌᾍᾎᾏᾘᾙᾚᾛᾜᾝᾞᾟᾨᾩᾪᾫᾬᾭᾮᾯᾸᾹᾼῌῘῙῨῩῬῼↃⒶⒷⒸⒹⒺⒻⒼⒽⒾⒿⓀⓁⓂⓃⓄ"
    \o "ⓅⓆⓇⓈⓉⓊⓋⓌⓍⓎⓏⲀⲂⲄⲆⲈⲊⲌⲎⲐⲒⲔⲖⲘⲚⲜⲞⲠⲢⲤⲦⲨⲪⲬⲮⲰⲲⲴⲶⲸⲺⲼⲾⳀⳂⳄⳆⳈⳊⳌⳎⳐⳒⳔⳖⳘⳚⳜⳞⳠ"
    \o "ⳢⳫⳭⳲꚀꚂꚄꚆꚈꚊꚌꚎꚐꚒꚔꚖꚘꚚꞀꞂꞄꞆꞋꞐꞒꞖꞘꞚꞜꞞꞠꞢꞤꞦꞨꞰꞱꞲꞴꞶꞸꞺꞼꞾꟀꟂꟄꟅꟆꟇꟉꟐꟖꟘꟵ"

SmallRows ==
    "àáâãäåæçèéêëìíîïðñòóôõöøùúûüýþƃƅƈƌǝƒƙơƣƥʀƨʃƭʈưʊʋƴƶʒƹƽǆǆǉǉǌǌǎ"
    \o "ǐǒǔǖǘǚǜǟǡǣǥǧǩǫǭǯǳǳǵƕƿǹǻǽǿάέήίόύώαβγδεζηθικλμνξοπρτυφχψωϊϋϗϙϛ"
    \o "ϝϟϡϣϥϧϩϫϭϯθϸϲϻҁҋҍҏґғҕҗҙқҝҟҡңҥҧҩҫҭүұҳҵҷҹһҽҿӏӂӄӆӈӊӌӎӑӓӕӗәӛӝӟӡӣ"
    \o "ӥӧөӫӭӯӱӳӵӷӹӻӽӿꮀꮁꮂꮃꮄꮅꮆꮇꮈꮉꮊꮋꮌꮍꮎꮏꮐꮑꮒꮓꮔꮕꮖꮗꮘꮙꮚꮛꮜꮝꮞꮟꮠꮡꮢꮣꮤꮥꮦꮧꮨꮩꮪꮫꮬꮭ"
    \o "ꮮꮯꮰꮱꮲꮳꮴꮵꮶꮷꮸꮹꮺꮻꮼꮽꮾꮿᏸᏹᏺᏻᏼᏽაბგდევზთიკლმნოპჟრსტუფქღყშჩცძწჭხჯჰჱჲჳ"
    \o "ჴჵჶჷჸჹჺჽჾჿẁẃẅẇẉẋẍẏẑẓẕßạảấầẩẫậắằẳẵặẹẻẽếềểễệỉịọỏốồổỗộớờởỡợụủứừ"
    \o "ửữựỳỵỷỹỻỽỿᾀᾁᾂᾃᾄᾅᾆᾇᾐᾑᾒᾓᾔᾕᾖᾗᾠᾡᾢᾣᾤᾥᾦᾧᾰᾱᾳῃῐῑῠῡῥῳↄⓐⓑⓒⓓⓔⓕⓖⓗⓘⓙⓚⓛⓜⓝⓞ"
    \o "ⓟⓠⓡⓢⓣⓤⓥⓦⓧⓨⓩⲁⲃⲅⲇⲉⲋⲍⲏⲑⲓⲕⲗⲙⲛⲝⲟⲡⲣⲥⲧⲩⲫⲭⲯⲱⲳⲵⲷⲹⲻⲽⲿⳁⳃⳅⳇⳉⳋⳍⳏⳑⳓⳕⳗⳙⳛⳝⳟⳡ"
    \o "ⳣⳬⳮⳳꚁꚃꚅꚇꚉꚋꚍꚏꚑꚓꚕꚗꚙꚛꞁꞃꞅꞇꞌꞑꞓꞗꞙꞛꞝꞟꞡꞣꞥꞧꞩʞʇʝꞵꞷꞹꞻꞽꞿꟁꟃꞔʂᶎꟈꟊꟑꟗꟙꟶ"

\* the characters that str.lower() changes to a character no string of this
\* module holds
CapitalsWithoutSmall ==
    "ƁƆƉƊƏƐƓƔƖƗƜƝƟϽϾϿႠႡႢႣႤႥႦႧႨႩႪႫႬႭႮႯႰႱႲႳႴႵႶႷႸႹႺႻႼႽႾႿჀჁჂჃჄჅჇჍᎠᎡᎢᎣ"
    \o "ᎤᎥᎦᎧᎨᎩᎪᎫᎬᎭᎮᎯᾺΆῈΈῊΉῚΊῪΎῸΌῺΏꞍꞪꞫꞬꞭꞮꞳ"

\* the lower-case form of every character that has another one
LowerOf ==
    LET capitals == UpperAlpha \o CapitalRows
        smalls == LowerAlpha \o SmallRows
    IN  [c \in CharsOf(capitals) |->
            Char(smalls, CHOOSE i \in 1..Len(capitals) : Char(capitals, i) = c)]

\* the lower-case form of a character other than capital sigma; a character
\* of CapitalsWithoutSmall has none here
LowerChar(c) ==
    IF c \in DOMAIN LowerOf THEN LowerOf[c]
    ELSE IF c \in CharsOf(CapitalsWithoutSmall) THEN CHOOSE small \in {} : TRUE
    ELSE c

\* the characters that are upper case, lower case or title case; the rows
\* hold those above U+007F
Cased ==
    CharsOf(LowerAlpha) \cup CharsOf(UpperAlpha) \cup
    UNION {CharsOf(row) : row \in
    {"ªµºÀÁÂÃÄÅÆÇÈÉÊËÌÍÎÏÐÑÒÓÔÕÖØÙÚÛÜÝÞßàáâãäåæçèéêëìíîïðñòóôõöøùú",
     "ûüýþÿƀƁƂƃƄƅƆƇƈƉƊƋƌƍƎƏƐƑƒƓƔƕƖƗƘƙƚƛƜƝƞƟƠơƢƣƤƥƦƧƨƩƪƫƬƭƮƯưƱƲƳƴƵƶ",
     "ƷƸƹƺƼƽƾƿǄǅǆǇǈǉǊǋǌǍǎǏǐǑǒǓǔǕǖǗǘǙǚǛǜǝǞǟǠǡǢǣǤǥǦǧǨǩǪǫǬǭǮǯǰǱǲǳǴǵǶǷ",
     "ǸǹǺǻǼǽǾǿʀʁʂʃʄʅʆʇʈʉʊʋʌʍʎʏʐʑʒʓʕʖʗʘʙʚʛʜʝʞʟʠʡʢʣʤʥʦʧʨʩʪʫʬʭʮʯʰʱʲʳʴ",
     "ʵʶʷʸˀˁˠˡˢˣˤΆΈΉΊΌΎΏΐΑΒΓΔΕΖΗΘΙΚΛΜΝΞΟΠΡΣΤΥΦΧΨΩΪΫάέήίΰαβγδεζηθικ",
     "λμνξοπρςστυφχψωϊϋόύώϏϐϑϒϓϔϕϖϗϘϙϚϛϜϝϞϟϠϡϢϣϤϥϦϧϨϩϪϫϬϭϮϯϰϱϲϳϴϵϷ",
     "ϸϹϺϻϼϽϾϿҀҁҊҋҌҍҎҏҐґҒғҔҕҖҗҘҙҚқҜҝҞҟҠҡҢңҤҥҦҧҨҩҪҫҬҭҮүҰұҲҳҴҵҶҷҸҹҺһ",
     "ҼҽҾҿӀӁӂӃӄӅӆӇӈӉӊӋӌӍӎӏӐӑӒӓӔӕӖӗӘәӚӛӜӝӞӟӠӡӢӣӤӥӦӧӨөӪӫӬӭӮӯӰӱӲӳӴӵӶӷ",
     "ӸӹӺӻӼӽӾӿրցւփքօֆևֈႠႡႢႣႤႥႦႧႨႩႪႫႬႭႮႯႰႱႲႳႴႵႶႷႸႹႺႻႼႽႾႿჀჁჂჃჄჅჇჍაბგ",
     "დევზთიკლმნოპჟრსტუფქღყშჩცძწჭხჯჰჱჲჳჴჵჶჷჸჹჺჽჾჿᎠᎡᎢᎣᎤᎥᎦᎧᎨᎩᎪᎫᎬᎭᎮᎯᎰ",
     "ᎱᎲᎳᎴᎵᎶᎷᎸᎹᎺᎻᎼᎽᎾᎿᏀᏁᏂᏃᏄᏅᏆᏇᏈᏉᏊᏋᏌᏍᏎᏏᏐᏑᏒᏓᏔᏕᏖᏗᏘᏙᏚᏛᏜᏝᏞᏟᏠᏡᏢᏣᏤᏥᏦᏧᏨᏩᏪᏫᏬ",
     "ᏭᏮᏯᏰᏱᏲᏳᏴᏵᏸᏹᏺᏻᏼᏽᲀᲁᲂᲃᲄᲅᲆᲇᲈᲐᲑᲒᲓᲔᲕᲖᲗᲘᲙᲚᲛᲜᲝᲞᲟᲠᲡᲢᲣᲤᲥᲦᲧᲨᲩᲪᲫᲬᲭᲮᲯᲰᲱᲲᲳ",
     "ᲴᲵᲶᲷᲸᲹᲺᲽᲾᲿᶀᶁᶂᶃᶄᶅᶆᶇᶈᶉᶊᶋᶌᶍᶎᶏᶐᶑᶒᶓᶔᶕᶖᶗᶘᶙᶚᶛᶜᶝᶞᶟᶠᶡᶢᶣᶤᶥᶦᶧᶨᶩᶪᶫᶬᶭᶮᶯᶰᶱ",
     "ᶲᶳᶴᶵᶶᶷᶸᶹᶺᶻᶼᶽᶾᶿẀẁẂẃẄẅẆẇẈẉẊẋẌẍẎẏẐẑẒẓẔẕẖẗẘẙẚẛẜẝẞẟẠạẢảẤấẦầẨẩẪẫẬậ",
     "ẮắẰằẲẳẴẵẶặẸẹẺẻẼẽẾếỀềỂểỄễỆệỈỉỊịỌọỎỏỐốỒồỔổỖỗỘộỚớỜờỞởỠỡỢợỤụỦủỨứ",
     "ỪừỬửỮữỰựỲỳỴỵỶỷỸỹỺỻỼỽỾỿᾀᾁᾂᾃᾄᾅᾆᾇᾈᾉᾊᾋᾌᾍᾎᾏᾐᾑᾒᾓᾔᾕᾖᾗᾘᾙᾚᾛᾜᾝᾞᾟᾠᾡᾢᾣᾤᾥ",
     "ᾦᾧᾨᾩᾪᾫᾬᾭᾮᾯᾰᾱᾲᾳᾴᾶᾷᾸᾹᾺΆᾼιῂῃῄῆῇῈΈῊΉῌῐῑῒΐῖῗῘῙῚΊῠῡῢΰῤῥῦῧῨῩῪΎῬῲῳῴῶ",
     "ῷῸΌῺΏῼₐₑₒₓₔₕₖₗₘₙₚₛₜↃↄⒶⒷⒸⒹⒺⒻⒼⒽⒾⒿⓀⓁⓂⓃⓄⓅⓆⓇⓈⓉⓊⓋⓌⓍⓎⓏⓐⓑⓒⓓⓔⓕⓖⓗⓘⓙⓚⓛⓜ",
     "ⓝⓞⓟⓠⓡⓢⓣⓤⓥⓦⓧⓨⓩⲀⲁⲂⲃⲄⲅⲆⲇⲈⲉⲊⲋⲌⲍⲎⲏⲐⲑⲒⲓⲔⲕⲖⲗⲘⲙⲚⲛⲜⲝⲞⲟⲠⲡⲢⲣⲤⲥⲦⲧⲨⲩⲪⲫⲬⲭⲮ",
     "ⲯⲰⲱⲲⲳⲴⲵⲶⲷⲸⲹⲺⲻⲼⲽⲾⲿⳀⳁⳂⳃⳄⳅⳆⳇⳈⳉⳊⳋⳌⳍⳎⳏⳐⳑⳒⳓⳔⳕⳖⳗⳘⳙⳚⳛⳜⳝⳞⳟⳠⳡⳢⳣⳤⳫⳬⳭⳮⳲⳳ",
     "ꚀꚁꚂꚃꚄꚅꚆꚇꚈꚉꚊꚋꚌꚍꚎꚏꚐꚑꚒꚓꚔꚕꚖꚗꚘꚙꚚꚛꚜꚝꞀꞁꞂꞃꞄꞅꞆꞇꞋꞌꞍꞎꞐꞑꞒꞓꞔꞕꞖꞗꞘꞙꞚꞛꞜꞝꞞꞟꞠꞡ",
     "ꞢꞣꞤꞥꞦꞧꞨꞩꞪꞫꞬꞭꞮꞯꞰꞱꞲꞳꞴꞵꞶꞷꞸꞹꞺꞻꞼꞽꞾꞿꟀꟁꟂꟃꟄꟅꟆꟇꟈꟉꟊꟐꟑꟓꟕꟖꟗꟘꟙꟵꟶꟸꟹꟺꮀꮁꮂꮃꮄꮅ",
     "ꮆꮇꮈꮉꮊꮋꮌꮍꮎꮏꮐꮑꮒꮓꮔꮕꮖꮗꮘꮙꮚꮛꮜꮝꮞꮟꮠꮡꮢꮣꮤꮥꮦꮧꮨꮩꮪꮫꮬꮭꮮꮯꮰꮱꮲꮳꮴꮵꮶꮷꮸꮹꮺꮻꮼꮽꮾꮿ"}}

\* the characters that a word may hold without an effect on the case of its
\* letters (Case_Ignorable); the rows hold those above U+007F
CaseIgnorable ==
    {"'", ".", ":", "^"} \cup
    UNION {CharsOf(row) : row \in
    {"¨­¯´·¸ʰʱʲʳʴʵʶʷʸʹʺʻʼʽʾʿˀˁ˂˃˄˅ˆˇˈˉˊˋˌˍˎˏːˑ˒˓˔˕˖˗˘˙˚˛˜˝˞˟ˠˡˢˣˤ˥",
     "˦˧˨˩˪˫ˬ˭ˮ˯˰˱˲˳˴˵˶˷˸˹˺˻˼˽˾˿΄΅·҃҄҅҆҇҈҉֑֖֛֢֣֤֥֦֧֚֒֓֔֕֗֘֙֜֝֞֟֠֡֨",
     "ְֱֲֳִֵֶַָׇֹֺֻּֽֿׁׂ֪ׅ֭֮֩֫֬֯ׄ״ۖۗۘۙۚۛۜ۝ۣ۟۠ۡۢۤۥۦ۪ۭۧۨ۫۬ަާިީުޫެޭޮޯ",
     "ް߲߫߬߭߮߯߰߱߳ߴߵߺ߽࢈࢐࢑࢙࢚࢛࢘࢜࢝࢞࢟ࣉ࣏࣐࣑࣒࣓࣊࣋࣌࣍࣎ࣔࣕࣖࣗࣘࣙࣚࣛࣜࣝࣞࣟ࣠࣡࣢ࣣࣦࣩࣤࣥࣧࣨ࣪࣫",
     "ࣰࣱࣲ࣭࣮࣯ࣶࣹࣺ࣬ࣳࣴࣵࣷࣸࣻࣼࣽࣾࣿঁ়ুূৃৄ্ৢৣ৾ઁં઼ુૂૃૄૅેૈ્ૢૣૺૻૼ૽૾૿ஂீ்ಁ಼ಿೆೌ್ೢೣ",
     "ඁ්ිීුූັິີຶື຺ຸູົຼໆ່້໊໋໌ໍ྄ཱྀྀྂྃ྆྇ྍྎྏྐྑྒྒྷྔྕྖྗྙྚྛྜྜྷྞྟྠྡྡྷྣྤྥྦྦྷྨྩྪྫ",
     "ྫྷྭྮྯྰྱྲླྴྵྶྷྸྐྵྺྻྼ࿆ႂႅႆႍႝჼ឴឵ិីឹឺុូួំ៉៊់៌៍៎៏័៑្៓ៗ៝ᢅᢆᢩᪧ᪵᪶᪷᪸᪰᪱᪲᪳᪴",
     "᪹᪺᪽᪻᪼᪾ᪿᫀ᫃᫄᫊᫁᫂᫅᫆᫇᫈᫉᫋ᫌᫍᫎᮀᮁᮢᮣᮤᮥᮨᮩ᮫ᮬᮭ᯦ᯨᯩᯭᯯᯰᯱ᳔᳢᳣᳤᳥᳕᳖᳗᳘᳙᳜᳝᳞᳟᳐᳑᳒᳚᳛᳠",
     "᳦᳧᳨᳭᳴᳸᳹ᶛᶜᶝᶞᶟᶠᶡᶢᶣᶤᶥᶦᶧᶨᶩᶪᶫᶬᶭᶮᶯᶰᶱᶲᶳᶴᶵᶶᶷᶸᶹᶺᶻᶼᶽᶾᶿ᷎᷂᷊᷏᷀᷁᷃᷄᷅᷆᷇᷈᷉᷋᷌᷍",
     "᷐᷺᷹᷽᷿᷷᷸᷑᷒ᷓᷔᷕᷖᷗᷘᷙᷚᷛᷜᷝᷞᷟᷠᷡᷢᷣᷤᷥᷦᷧᷨᷩᷪᷫᷬᷭᷮᷯᷰᷱᷲᷳᷴ᷵᷻᷾᷶᷼᾽᾿῀῁῍῎῏῝῞῟῭΅",
     "`´῾ₐₑₒₓₔₕₖₗₘₙₚₛₜ⃒⃓⃘⃙⃚⃐⃑⃔⃕⃖⃗⃛⃜⃝⃞⃟⃠⃡⃢⃣⃤⃥⃦⃪⃫⃨⃬⃭⃮⃯⃧⃩⃰⳯⳰⳱ⷠⷡⷢⷣⷤⷥⷦⷧ",
     "゙゚ⷨⷩⷪⷫⷬⷭⷮⷯⷰⷱⷲⷳⷴⷵⷶⷷⷸⷹⷺⷻⷼⷽⷾⷿ゛゜ゝゞーヽヾꓸꓹꓺꓻꓼꓽꚜꚝꚞꚟ꛰꛱ꞈ꞉꞊ꟲꟳꟴꟸꟹ꣄ꣅ꣠꣡꣢꣣꣤",
     "꣥꣦꣧꣨꣩꣪꣫꣬꣭꣮꣯꣰꣱ꣿꦀꦁꦂ꦳ꦶꦷꦸꦹꦼꦽꧏꧥꧦꪴꪰꪲꪳꪷꪸꪾ꪿꫁ꫝꫬꫭꫳꫴ꫶ꯥꯨ꯭﮲﮳﮴﮵﮶﮷﮸﮹﮺﮻﮼﮽﮾﮿﯀",
     "﯁﯂﻿ﾞﾟ￣￹￺￻"}}

\* A capital sigma at position i becomes the final small sigma when a cased
\* character comes before it and none comes after it, the characters of
\* CaseIgnorable next to it being passed over.
FinalSigma(s, i) ==
    LET before == {p \in 1..(i - 1) : Char(s, p) \notin CaseIgnorable}
        j == IF before = {} THEN 0 ELSE CHOOSE p \in before : \A q \in before : q <= p
        k == FirstNotIn(s, i + 1, CaseIgnorable)
    IN  /\ j >= 1
        /\ Char(s, j) \in Cased
        /\ (k > Len(s) \/ Char(s, k) \notin Cased)

\* str.lower()
Lower(s) ==
    LET LowerAt(i) ==
            IF Char(s, i) = "Σ" THEN (IF FinalSigma(s, i) THEN "ς" ELSE "σ")
            ELSE LowerChar(Char(s, i))
    IN  Concat([i \in 1..Len(s) |-> LowerAt(i)], 1, Len(s))

RECURSIVE Repeat(_, _)
\* s * n
Repeat(s, n) == IF n <= 0 THEN "" ELSE s \o Repeat(s, n - 1)

(***************************************************************************)
(* The regular expressions of the rule tables.  Every pattern of           *)
(* TRANSPILE_RULES is a concatenation of literals, \b, the greedy group   *)
(* of any characters but newline (ANY) and the greedy group of one or more *)
(* word characters (WORD); a replacement is a concatenation of literals    *)
(* and group references.                                                   *)
(***************************************************************************)
L(s) == [k |-> "lit", s |-> s, n |-> 0]
WB == [k |-> "wb", s |-> "", n |-> 0]
ANY == [k |-> "any", s |-> "", n |-> 0]
WORD == [k |-> "word", s |-> "", n |-> 0]
G(n) == [k |-> "grp", s |-> "", n |-> n]

IsWordAt(text, pos) == pos >= 1 /\ pos <= Len(text) /\ Char(text, pos) \in WordChars

\* \b before position pos
AtWordBoundary(text, pos) == IsWordAt(text, pos - 1) # IsWordAt(text, pos)

\* how many characters "." can take from pos: up to the end of the line
DotRun(text, pos) == FirstIn(text, pos, {"\n"}) - pos

\* how many characters \w can take from pos
WordRun(text, pos) == FirstNotIn(text, pos, WordChars) - pos

NoMatch == <<>>

RECURSIVE MatchFrom(_, _, _, _, _)
\* Backtracking match of pat[j..] at text[pos..]: NoMatch, or <<end, groups>>
\* with end the position after the match.  A greedy group takes the longest
\* length, between min and run, with which the rest of the pattern matches.
MatchFrom(pat, j, text, pos, groups) ==
    IF j > Len(pat) THEN <<pos, groups>>
    ELSE LET e == pat[j]
             Rest(len) == MatchFrom(pat, j + 1, text, pos + len,
                                    Append(groups, SubSeq(text, pos, pos + len - 1)))
             Greedy(min, run) ==
                LET ok == {len \in min..run : Rest(len) # NoMatch}
                IN  IF ok = {} THEN NoMatch
                    ELSE Rest(CHOOSE len \in ok : \A q \in ok : q <= len)
         IN
         CASE e.k = "lit" ->
                IF StartsWithAt(text, pos, e.s)
                THEN MatchFrom(pat, j + 1, text, pos + Len(e.s), groups)
                ELSE NoMatch
           [] e.k = "wb" ->
                IF AtWordBoundary(text, pos)
                THEN MatchFrom(pat, j + 1, text, pos, groups)
                ELSE NoMatch
           [] e.k = "any" -> Greedy(0, DotRun(text, pos))
           [] e.k = "word" -> Greedy(1, WordRun(text, pos))

RECURSIVE Expand(_, _)
\* the replacement template with its group references filled in
Expand(repl, groups) ==
    IF Len(repl) = 0 THEN ""
    ELSE (IF repl[1].k = "grp" THEN groups[repl[1].n] ELSE repl[1].s)
         \o Expand(Tail(repl), groups)

RECURSIVE SubFrom(_, _, _, _)
\* re.sub(pat, repl, text) from position pos: the leftmost match at or after
\* pos is replaced and the scan goes on after it (matches do not overlap; no
\* pattern of the tables matches the empty string)
SubFrom(pat, repl, text, pos) ==
    LET at == {i \in pos..Len(text) : MatchFrom(pat, 1, text, i, <<>>) # NoMatch}
    IN  IF at = {} THEN SubSeq(text, pos, Len(text))
        ELSE LET i == MinOf(at)
                 m == MatchFrom(pat, 1, text, i, <<>>)
             IN  SubSeq(text, pos, i - 1) \o Expand(repl, m[2]) \o SubFrom(pat, repl, text, m[1])

ReSub(pat, repl, text) == SubFrom(pat, repl, text, 1)

(***************************************************************************)
(* app/core/transpiler.py                                                  *)
(***************************************************************************)
\* the rule tables, a dict: its items come in insertion order
TRANSPILE_RULES(src, dst) ==
    IF src = "python" /\ dst = "javascript" THEN
      << <<  <<WB, L("print("), ANY, L(")")>>,  <<L("console.log("), G(1), L(")")>>  >>,
         <<  <<L("def "), WORD, L("("), ANY, L("):")>>,
             <<L("function "), G(1), L("("), G(2), L(") {")>>  >>,
         <<  <<WB, L("True"), WB>>,  <<L("true")>>  >>,
         <<  <<WB, L("False"), WB>>,  <<L("false")>>  >>,
         <<  <<WB, L("None"), WB>>,  <<L("null")>>  >>,
         <<  <<WORD, L(" = "), ANY>>,  <<L("let "), G(1), L(" = "), G(2), L(";")>>  >>,
         <<  <<L("if "), ANY, L(":")>>,  <<L("if ("), G(1), L(") {")>>  >>,
         <<  <<L("elif "), ANY, L(":")>>,  <<L("} else if ("), G(1), L(") {")>>  >>,
         <<  <<L("else:")>>,  <<L("} else {")>>  >> >>
    ELSE IF src = "javascript" /\ dst = "python" THEN
      << <<  <<L("console.log("), ANY, L(")")>>,  <<L("print("), G(1), L(")")>>  >>,
         <<  <<L("function "), WORD, L("("), ANY, L(") {")>>,
             <<L("def "), G(1), L("("), G(2), L("):")>>  >>,
         <<  <<WB, L("true"), WB>>,  <<L("True")>>  >>,
         <<  <<WB, L("false"), WB>>,  <<L("False")>>  >>,
         <<  <<WB, L("null"), WB>>,  <<L("None")>>  >>,
         <<  <<L("let "), WORD, L(" = "), ANY, L(";")>>,  <<G(1), L(" = "), G(2)>>  >>,
         <<  <<L("if ("), ANY, L(") {")>>,  <<L("if "), G(1), L(":")>>  >>,
         <<  <<L("} else if ("), ANY, L(") {")>>,  <<L("elif "), G(1), L(":")>>  >>,
         <<  <<L("} else {")>>,  <<L("else:")>>  >> >>
    ELSE <<>>

\* key in TRANSPILE_RULES
SupportedPairs == {<<"python", "javascript">>, <<"javascript", "python">>}

\* a lookup by the source language alone
HasRulesForSource(src, dst) == \E pair \in SupportedPairs : pair[1] = src

\* key in TRANSPILE_RULES
HasRules(src, dst) == <<src, dst>> \in SupportedPairs

\* a map whose second entry repeats the first
IndentMapRepeated(src, dst) ==
    IF HasRules(src, dst) THEN <<"    ", "  ">> ELSE <<"", "">>

\* (source unit, target unit) of indentation
INDENT_MAP(src, dst) ==
    IF src = "python" /\ dst = "javascript" THEN <<"    ", "  ">>
    ELSE IF src = "javascript" /\ dst = "python" THEN <<"  ", "    ">>
    ELSE <<"", "">>

RECURSIVE ApplyRules(_, _, _)
\* for pattern, repl in rules.items(): new_code = re.sub(pattern, repl, new_code)
\* text after the first n rules: rule n applied to the text after n - 1 rules
ApplyRules(rules, n, text) ==
    IF n = 0 THEN text
    ELSE The({ReSub(rules[n][1], rules[n][2], t) : t \in {ApplyRules(rules, n - 1, text)}})

\* a loop that gives one target unit per leading character
FixLineUndivided(line, src_indent, dst_indent) ==
    Repeat(dst_indent, Len(line) - Len(LStrip(line))) \o LStrip(line)

\* one line of the "fix indentation" loop
FixLine(line, src_indent, dst_indent) ==
    LET stripped == LStrip(line)
        indent_count == Len(line) - Len(stripped)
    IN  Repeat(dst_indent, indent_count \div Len(src_indent)) \o stripped

FixIndent(text, src_indent, dst_indent) ==
    IF src_indent # "" /\ dst_indent # ""
    THEN LET lines == Split(text, "\n")
         IN  Join([i \in 1..Len(lines) |-> FixLine(lines[i], src_indent, dst_indent)], "\n")
    ELSE text

\* re.sub of the pattern "newline not followed by whitespace or }" by
\* "newline } newline": each such newline, also one that ends the text
CloseAll(text) ==
    Concat([pos \in 1..Len(text) |->
              IF /\ Char(text, pos) = "\n"
                 /\ ~(pos + 1 <= Len(text) /\ Char(text, pos + 1) \in Whitespace \cup {"}"})
              THEN "\n}\n"
              ELSE Char(text, pos)], 1, Len(text))

CloseBlocks(src, dst, text) ==
    IF src = "python" /\ dst = "javascript" THEN CloseAll(text) ELSE text

\* the error message
UnsupportedMsg(src, dst) == "Transpilation " \o src \o " → " \o dst \o " not supported"

\* The tables are module-level dicts, which every call shares: per pair, the
\* indices of the rules of TRANSPILE_RULES in the order rules.items() gives
\* them.  As imported, that is the order in which the literal lists them.
ImportedTables ==
    [pair \in SupportedPairs |-> [i \in 1..Len(TRANSPILE_RULES(pair[1], pair[2])) |-> i]]

\* rules = TRANSPILE_RULES[key], as a list of its items
RulesIn(tables, src, dst) ==
    [i \in 1..Len(tables[<<src, dst>>]) |-> TRANSPILE_RULES(src, dst)[tables[<<src, dst>>][i]]]

\* a loop that takes each rule out of the dict as it applies it (popitem in
\* place of items) leaves the table of the pair empty for the next call
TablesConsumed(tables, src, dst) ==
    [pair \in DOMAIN tables |-> IF pair = <<src, dst>> THEN <<>> ELSE tables[pair]]

\* the tables after a call for (src, dst): transpile reads them and assigns
\* to its locals only
TablesAfterCall(tables, src, dst) == tables

\* transpile(task), task = [code, from, to], with the tables as the call finds them
TranspileWith(tables, task) ==
    LET src == Lower(task.from)
        dst == Lower(task.to)
        code == task.code
    IN  IF ~HasRules(src, dst)
        THEN [error |-> UnsupportedMsg(src, dst)]
        ELSE IF <<src, dst>> \notin DOMAIN tables
        THEN [raised |-> "KeyError"]      \* TRANSPILE_RULES[key] without the key
        ELSE LET rules == RulesIn(tables, src, dst)
                 ruled == ApplyRules(rules, Len(rules), code)
                 ind == INDENT_MAP(src, dst)
                 fixed == FixIndent(ruled, ind[1], ind[2])
             IN  [code |-> CloseBlocks(src, dst, fixed),
                  from |-> src, to |-> dst, status |-> "transpiled"]

\* transpile(task) in a freshly imported module
transpile(task) == TranspileWith(ImportedTables, task)

(***************************************************************************)
(* app/core/optimizer.py                                                   *)
(***************************************************************************)
\* set(re.findall(pattern, code)), pattern = \b, one of [a-zA-Z_], any number
\* of \w, \b: the maximal runs of word characters that start with a letter or _
UsedVars(code) ==
    {SubSeq(code, p, p + WordRun(code, p) - 1) :
        p \in {q \in 1..Len(code) : AtWordBoundary(code, q) /\ Char(code, q) \in IdentStart}}

KeptModules == {"os", "sys", "json", "math"}

is_empty_block(line, lines) == FALSE

IsImportLine(line) ==
    StartsWith(Strip(line), "import ") \/ StartsWith(Strip(line), "from ")

\* line.split()[1].split('.')[0]
ImportedModule(line) == Split(SplitWs(line)[2], ".")[1]

RECURSIVE OptPyLines(_, _, _, _)
\* the loop of optimize_python from line i on; acc = <<cleaned, improvements>>
OptPyLines(lines, i, used_vars, acc) ==
    IF i > Len(lines) THEN acc
    ELSE LET line == lines[i]
             next ==
               IF IsImportLine(line)
               THEN IF ImportedModule(line) \in used_vars \cup KeptModules
                    THEN <<Append(acc[1], line), acc[2]>>
                    ELSE <<acc[1], Append(acc[2], "Removed unused import: " \o Strip(line))>>
               ELSE IF Strip(line) = "pass" /\ ~is_empty_block(line, lines)
                    THEN <<acc[1], Append(acc[2], "Removed unnecessary pass")>>
                    ELSE <<Append(acc[1], line), acc[2]>>
         IN  OptPyLines(lines, i + 1, used_vars, next)

\* optimize_python(code) = <<code, improvements>>
optimize_python(code) ==
    LET r == OptPyLines(Split(code, "\n"), 1, UsedVars(code), <<<<>>, <<>>>>)
    IN  <<Join(r[1], "\n"), r[2]>>

\* optimize_js(code) = <<code, improvements>>
optimize_js(code) == <<Replace(code, "var ", "let "), <<"Replaced var with let">>>>

\* optimize(task), task = [code, language]
optimize(task) ==
    LET lang == Lower(task.language)
        r == IF lang = "python" THEN optimize_python(task.code)
             ELSE IF lang = "javascript" THEN optimize_js(task.code)
             ELSE <<task.code, <<>>>>
    IN  [optimized_code |-> r[1],
         original_code |-> task.code,
         improvements |-> r[2],
         savings |-> Len(task.code) - Len(r[1]),
         language |-> lang]

(***************************************************************************)
(* Paths (os.path, pathlib) and the file helpers of app/utils/file.py.     *)
(* The file system is fs, a function from the absolute paths of the files  *)
(* to their contents, and dirs, the set of the directories.                *)
(***************************************************************************)
\* Python's None, where a path or a URL is expected
None == "<None>"

\* the last position of s that holds the character c, 0 when there is none
RFind(s, c) ==
    LET ps == SepPositions(s, c)
    IN  IF ps = {} THEN 0 ELSE CHOOSE p \in ps : \A q \in ps : q <= p

\* os.path.splitext(path)[1]: from the last dot of the last segment on,
\* unless only dots precede it in that segment
SplitExt(path) ==
    LET sep == RFind(path, "/")
        dot == RFind(path, ".")
    IN  IF dot > sep /\ \E i \in (sep + 1)..(dot - 1) : Char(path, i) # "."
        THEN SubSeq(path, dot, Len(path))
        ELSE ""

\* os.path.dirname(path)
DirName(path) ==
    LET sep == RFind(path, "/")
    IN  IF sep <= 1 THEN SubSeq(path, 1, sep) ELSE SubSeq(path, 1, sep - 1)

\* the directories above path, the root / excluded
Ancestors(path) == {SubSeq(path, 1, i - 1) : i \in {j \in SepPositions(path, "/") : j > 1}}

\* path lies below the directory root
Under(path, root) == StartsWith(path, root \o "/")

\* path.relative_to(root), as a string
RelativeTo(path, root) == SubSeq(path, Len(root) + 2, Len(path))

\* any(part.startswith('.') for part in rel_parts)
HasHiddenPart(rel) == StartsWith(rel, ".") \/ In("/.", rel)

\* the job's TemporaryDirectory
TmpDir == "/tmp/tmpw"

\* the paths for which open(path, "r") raises
Unreadable == {TmpDir \o "/locked.py"}

\* what a file opened in text mode gives for its stored content: universal
\* newlines turn "\r\n" and a lone "\r" into "\n"
TextMode(content) == Replace(Replace(content, "\r\n", "\n"), "\r", "\n")

\* read_file(path): the content as open(path, "r") gives it, "" when
\* reading raises
read_file(f, path) ==
    IF path \in DOMAIN f /\ path \notin Unreadable THEN TextMode(f[path]) ELSE ""

\* os.makedirs(os.path.dirname(path), exist_ok=True) succeeds, then
\* open(path, "w") succeeds
CanMakeDirs(f, path) == \A a \in Ancestors(path) : a \notin DOMAIN f

CanWrite(f, d, path) == CanMakeDirs(f, path) /\ path \notin d /\ DirName(path) # ""

\* write_file(path, content): the files and the directories afterwards;
\* a failure is swallowed
WriteFiles(f, d, path, content) ==
    IF CanWrite(f, d, path)
    THEN [q \in DOMAIN f \cup {path} |-> IF q = path THEN content ELSE f[q]]
    ELSE f

WriteDirs(f, d, path) ==
    IF CanMakeDirs(f, path) /\ DirName(path) # "" THEN d \cup Ancestors(path) ELSE d

\* list_files(root_dir), recursive: the set of the non-hidden files below root
list_files(f, d, root) ==
    IF root \notin d THEN {}
    ELSE {q \in DOMAIN f : Under(q, root) /\ ~HasHiddenPart(RelativeTo(q, root))}

(***************************************************************************)
(* app/utils/git.py                                                        *)
(***************************************************************************)
\* what clone_repo(url, dest) can do: return dest ("ok"), return None after
\* a bad URL or a GitCommandError ("none"), or raise another exception
CloneOutcomes(url) ==
    IF ~StartsWith(url, "https://github.com/") THEN {"none"} ELSE {"ok", "none", "raise"}

PublicUrl == "https://github.com/example/app"

\* what commit_and_push(local_path, msg) can return: git.Repo(local_path)
\* raises unless local_path holds a .git directory, and every exception and
\* every failed push gives None
PushOutcomes(d, path) ==
    IF (path \o "/.git") \in d THEN {None, PublicUrl} ELSE {None}

(***************************************************************************)
(* app/core/reconstructor.py                                               *)
(***************************************************************************)
CodeExts == {".py", ".js", ".ts", ".rs", ".go", ".c", ".cpp", ".java", ".rb", ".php", ".cs"}

_is_code_file(path) == \E ext \in CodeExts : EndsWith(path, ext)

_detect_lang(ext, code) ==
    CASE ext = ".py" -> "python"
      [] ext = ".js" -> "javascript"
      [] ext = ".ts" -> "typescript"
      [] ext = ".rs" -> "rust"
      [] ext = ".go" -> "go"
      [] ext = ".c" -> "c"
      [] ext = ".cpp" -> "cpp"
      [] ext = ".java" -> "java"
      [] ext = ".rb" -> "ruby"
      [] ext = ".php" -> "php"
      [] ext = ".cs" -> "csharp"
      [] OTHER -> "unknown"

_get_ext(lang) ==
    CASE lang = "python" -> ".py"
      [] lang = "javascript" -> ".js"
      [] lang = "typescript" -> ".ts"
      [] lang = "rust" -> ".rs"
      [] lang = "go" -> ".go"
      [] lang = "c" -> ".c"
      [] lang = "cpp" -> ".cpp"
      [] lang = "java" -> ".java"
      [] lang = "ruby" -> ".rb"
      [] lang = "php" -> ".php"
      [] lang = "csharp" -> ".cs"
      [] OTHER -> ".txt"

AuthPatch == "\n# AUTH ADDED: JWT middleware"

\* the trigger looked for in the keyword as it was given
ApplyModCaseSensitive(code, mod) ==
    IF In("add auth", Strip(mod)) THEN code \o AuthPatch ELSE code

\* mod = mod.strip().lower(); if "add auth" in mod: return code + patch
_apply_mod(code, mod) ==
    IF In("add auth", Lower(Strip(mod))) THEN code \o AuthPatch ELSE code

RECURSIVE ApplyMods(_, _, _)
\* for mod in mods: new_code = _apply_mod(new_code, mod), after the first n
ApplyMods(code, mods, n) ==
    IF n = 0 THEN code ELSE _apply_mod(ApplyMods(code, mods, n - 1), mods[n])

\* a test for the empty string alone, which lets None through
CloneFailedOnlyEmpty(lp) == lp = ""

\* if not local_path
CloneFailed(lp) == lp = None \/ lp = ""

\* a test that forgets the comparison with the target language
NeedsTranspileAnyDetected(src_lang, target_lang) == src_lang # ""

\* if src_lang and src_lang != target_lang
NeedsTranspile(src_lang, target_lang) == src_lang # "" /\ src_lang # target_lang

\* result.get("code", code)
TranspiledCode(res, code) == IF "code" \in DOMAIN res THEN res.code ELSE code

\* a directory of that name below the clone
NewRepoPathInside(lp, target_lang) == lp \o "/_strived_in_" \o target_lang

\* new_repo_path = local_path + f"_strived_in_{target_lang}"
NewRepoPath(lp, target_lang) == lp \o "_strived_in_" \o target_lang

\* leaving the with block, by a return or by an exception (how): the
\* temporary directory and all below it are deleted
ExitFiles(how, f) == [q \in {r \in DOMAIN f : ~Under(r, TmpDir)} |-> f[q]]

\* a cleanup that runs on the return paths only
ExitDirsOnReturn(how, d) ==
    IF how = "raise" THEN d ELSE {q \in d : q # TmpDir /\ ~Under(q, TmpDir)}

ExitDirs(how, d) == {q \in d : q # TmpDir /\ ~Under(q, TmpDir)}

\* the response of a job that got to its end
Response(url, push, target_lang, nf, mods) ==
    [original |-> url, new_repo |-> push, language |-> target_lang,
     files_transpiled |-> Len(nf), modifications |-> mods, status |-> "reconstructed"]

(***************************************************************************)
(* The inputs: the request of a job and the repository its URL names.      *)
(***************************************************************************)
\* most files of the work tree of a cloned repository
MaxFiles == 2
\* most keywords of a modification list
MaxMods == 2

\* the files a repository can hold: <<path in the work tree, content>>
PoolFiles ==
    << <<"app.py", "x = 1">>,
       <<"app.js", "var a">>,
       <<"app.txt", "note">>,
       <<"sub/.env", "K">>,
       <<"lib.js/index.js", "let b = 2;\r\n">>,
       <<"e.py", "">>,
       <<"locked.py", "y = None">> >>

\* a repository is a set of at most MaxFiles files of the pool
Repos == {r \in SUBSET (1..Len(PoolFiles)) : Cardinality(r) <= MaxFiles}

\* What git.Repo.clone_from(url, dest) leaves in dest: the work tree and
\* .git.  HEAD stands for the files git keeps below .git (config, hooks,
\* index, packs, refs: their names and bytes are git's and the commit's);
\* the job never reads them, list_files and the copy loop pass over .git.
ClonedPaths(repo, dest) ==
    {dest \o "/" \o PoolFiles[i][1] : i \in repo} \cup {dest \o "/.git/HEAD"}

ClonedContent(path, dest) ==
    IF \E i \in 1..Len(PoolFiles) : dest \o "/" \o PoolFiles[i][1] = path
    THEN PoolFiles[CHOOSE i \in 1..Len(PoolFiles) : dest \o "/" \o PoolFiles[i][1] = path][2]
    ELSE "ref: refs/heads/main\n"

ModPool == {"add logging", " É Add Auth"}

RECURSIVE SeqsUpTo(_, _)
\* the sequences over S of length at most n
SeqsUpTo(S, n) ==
    IF n = 0 THEN {<<>>}
    ELSE LET shorter == SeqsUpTo(S, n - 1)
         IN  shorter \cup {Append(q, e) : q \in shorter, e \in S}

Urls == {PublicUrl, "invalid"}

TargetLangs == {"python", "javascript", "rust", "zig"}

\* the requests: task["github_url"], language, modifications, optimize
Tasks ==
    [github_url : Urls, language : TargetLangs,
     modifications : SeqsUpTo(ModPool, MaxMods), optimize : BOOLEAN]

\* the orders in which a set of paths can be listed
Orderings(S) ==
    {o \in [1..Cardinality(S) -> S] : \A i, j \in 1..Cardinality(S) : i # j => o[i] # o[j]}

\* the single-file requests
RequestCodes ==
    {"x = 1", "fn main() {}", "print('test')", "    let a = true;", "",
     "\ndef test():\n    x = 1\n    if x:\n        y = 2\n",
     "foo()\nbar()",
     "elif x:",
     "function f() {\n  let a = 1;\n}",
     "   z()",
     "if x > 0:\n    print(\"positive\")\nelse:\n    print(\"negative\")",
     "def f():\n    x = 1\ny = 2",
     "\ndef greet(name):\n    print(f\"Hello, {name}!\")\n    return True\n",
     "elif c:",
     "} else if (c) {",
     "function f() {\nlet a = 1;\n}",
     "\fx = 1",
     "def é(ñ):\n    ü = True\n        É2 = print(ñ)",
     "function é(ñ) {\n  let ü = null;\n    let ß = ü;\n}",
     "if é:\n    ü()\nelse:\n        ñ = É",
     "  let ñ = true;\n    console.log(ñ)"}
RequestLangs == {"python", "javascript", "rust", "go", "Python"}

\* StriveCodeEngine._get_transpilation_matrix: the pairs the engine
\* advertises as its "transpile" capability
_get_transpilation_matrix ==
    {<<"python", "javascript">>, <<"javascript", "python">>,
     <<"python", "rust">>, <<"rust", "python">>,
     <<"c", "assembly">>, <<"assembly", "c">>}

\* the (from, to) of a request: any two of the languages above, a pair the
\* engine advertises, or one of three pairs of names in capitals
RequestPairs ==
    (RequestLangs \X RequestLangs) \cup _get_transpilation_matrix
        \cup {<<"ÉCOLE", "go">>, <<"python", "ΟΔΟΣ">>, <<"PYTHON", "JavaScript">>}

(***************************************************************************)
(* The state.                                                              *)
(***************************************************************************)
VARIABLES
    pc,          \* where reconstruct_repo is
    task,        \* its argument
    fs, dirs,    \* the file system
    original,    \* the files right after the clone
    local_path,  \* what clone_repo returned
    files,       \* what list_files returned
    idx,         \* the position of the loop in files
    new_files,
    result,      \* what reconstruct_repo returned
    records,     \* per file that got past the read: what was done with it
    log,         \* the calls made so far to the collaborators, in order
    t_req,       \* the last single-file transpile request
    t_resp,      \* and the response to it
    t_back,      \* the response to the request that takes t_resp back
    t_forth,     \* the response to the request that takes t_back forth again
    tables,      \* the module-level rule tables of the transpiler
    calls,       \* the calls of transpile a client made, each with its response
    o_req,       \* the last optimize request
    o_resp,      \* and the response to it
    o_again      \* the response to optimize on the code of o_resp

job == <<pc, task, fs, dirs, original, local_path, files, idx, new_files, result, records, log>>
direct == <<t_req, t_resp, t_back, t_forth, calls, o_req, o_resp, o_again>>
vars == <<pc, task, fs, dirs, original, local_path, files, idx, new_files, result, records, log,
          t_req, t_resp, t_back, t_forth, tables, calls, o_req, o_resp, o_again>>

EmptyFs == [q \in {} |-> ""]
NoResult == [pending |-> TRUE]
NoRequest == [pending |-> TRUE]

Ev(op, arg) == [op |-> op, arg |-> arg]

\* with tempfile.TemporaryDirectory() as tmpdir: the directory exists
Init ==
    /\ pc = "created"
    /\ task \in Tasks
    /\ fs = EmptyFs
    /\ dirs = {"/tmp", TmpDir}
    /\ original = EmptyFs
    /\ local_path = None
    /\ files = <<>>
    /\ idx = 1
    /\ new_files = <<>>
    /\ result = NoResult
    /\ records = <<>>
    /\ log = <<>>
    /\ t_req = NoRequest
    /\ t_resp = NoRequest
    /\ t_back = NoRequest
    /\ t_forth = NoRequest
    /\ tables = ImportedTables
    /\ calls = <<>>
    /\ o_req = NoRequest
    /\ o_resp = NoRequest
    /\ o_again = NoRequest

(***************************************************************************)
(* reconstruct_repo, step by step.                                         *)
(***************************************************************************)
\* local_path = clone_repo(url, tmpdir), then "if not local_path: return"
AfterClone(lp, f, d) ==
    /\ local_path' = lp
    /\ log' = Append(log, Ev("clone", task.github_url))
    /\ IF CloneFailed(lp)
       THEN /\ pc' = "done"
            /\ result' = [error |-> "Clone failed"]
            /\ fs' = ExitFiles("return", f)
            /\ dirs' = ExitDirs("return", d)
            /\ original' = original
       ELSE /\ pc' = "cloned"
            /\ result' = result
            /\ fs' = f
            /\ dirs' = d
            /\ original' = f
    /\ UNCHANGED <<task, files, idx, new_files, records, direct, tables>>

CloneOk ==
    /\ pc = "created"
    /\ "ok" \in CloneOutcomes(task.github_url)
    /\ \E repo \in Repos :
         LET paths == ClonedPaths(repo, TmpDir)
             f == [q \in paths |-> ClonedContent(q, TmpDir)]
             d == dirs \cup UNION {Ancestors(q) : q \in paths}
         IN  AfterClone(TmpDir, f, d)

CloneNone ==
    /\ pc = "created"
    /\ "none" \in CloneOutcomes(task.github_url)
    /\ AfterClone(None, fs, dirs)

\* an exception leaves the with block: the directory is deleted, nothing is returned
Raised ==
    /\ pc' = "raised"
    /\ fs' = ExitFiles("raise", fs)
    /\ dirs' = ExitDirs("raise", dirs)
    /\ UNCHANGED <<task, original, local_path, files, idx, new_files, result, records, log, direct, tables>>

CloneRaise ==
    /\ pc = "created"
    /\ "raise" \in CloneOutcomes(task.github_url)
    /\ Raised

\* files = list_files(local_path); new_files = []
Enumerate ==
    /\ pc = "cloned"
    /\ \E order \in Orderings(list_files(fs, dirs, local_path)) : files' = order
    /\ idx' = 1
    /\ new_files' = <<>>
    /\ pc' = "processing"
    /\ log' = Append(log, Ev("list", local_path))
    /\ UNCHANGED <<task, fs, dirs, original, local_path, result, records, direct, tables>>

\* a loop that ends after its first pass
LoopEndsAfterFirst(fl, i) == i > Len(fl) \/ i > 1

\* the loop over files is over
LoopDone(fl, i) == i > Len(fl)

\* one pass of "for file_path in files"
ProcessFile ==
    /\ pc = "processing"
    /\ ~LoopDone(files, idx)
    /\ LET file_path == files[idx]
           target_lang == task.language
           code == read_file(fs, file_path)
           ext == SplitExt(file_path)
           src_lang == _detect_lang(ext, code)
           called == NeedsTranspile(src_lang, target_lang)
           tres == TranspileWith(tables, [code |-> code, from |-> src_lang, to |-> target_lang])
           staged == IF called THEN TranspiledCode(tres, code) ELSE code
           optimized == IF task.optimize
                        THEN optimize([code |-> staged, language |-> target_lang]).optimized_code
                        ELSE staged
           new_code == ApplyMods(optimized, task.modifications, Len(task.modifications))
           new_path == Replace(file_path, ext, _get_ext(target_lang))
       IN  IF ~_is_code_file(file_path)
           THEN UNCHANGED <<fs, dirs, new_files, records, log, tables>>
           ELSE IF code = ""
           THEN /\ log' = Append(log, Ev("read", file_path))
                /\ UNCHANGED <<fs, dirs, new_files, records, tables>>
           ELSE /\ new_files' = Append(new_files, new_path)
                /\ tables' = IF called
                             THEN TablesAfterCall(tables, Lower(src_lang), Lower(target_lang))
                             ELSE tables
                /\ fs' = WriteFiles(fs, dirs, new_path, new_code)
                /\ dirs' = WriteDirs(fs, dirs, new_path)
                /\ records' = Append(records,
                       [path |-> file_path, code |-> code, src_lang |-> src_lang,
                        called |-> called,
                        tstatus |-> IF ~called THEN "none"
                                    ELSE IF "error" \in DOMAIN tres THEN "error"
                                    ELSE tres.status,
                        staged |-> staged, optimized |-> optimized,
                        new_code |-> new_code, new_path |-> new_path,
                        written |-> CanWrite(fs, dirs, new_path)])
                /\ log' = log \o <<Ev("read", file_path)>>
                              \o (IF called THEN <<Ev("transpile", file_path)>> ELSE <<>>)
                              \o <<Ev("write", new_path)>>
    /\ idx' = idx + 1
    /\ UNCHANGED <<pc, task, original, local_path, files, result, direct>>

\* the name of the entry of root that path is, or lies below
TopName(path, root) ==
    LET rel == RelativeTo(path, root)
        k == FindFrom(rel, "/", 1)
    IN  IF k = 0 THEN rel ELSE SubSeq(rel, 1, k - 1)

\* for item in os.listdir(local_path): if item.startswith('.'): continue
KeptEntries(f, d, root) ==
    {e \in {TopName(q, root) : q \in {p \in DOMAIN f \cup d : Under(p, root)}} :
        ~StartsWith(e, ".")}

\* the kept entries whose copy raises: shutil.copy2 of a file that cannot be
\* opened, shutil.copytree of a directory that holds one
FailingEntries(f, d, root) ==
    {e \in KeptEntries(f, d, root) :
        \E u \in Unreadable \cap DOMAIN f : Under(u, root) /\ TopName(u, root) = e}

\* the files of the entries es of root that copy2 and copytree can copy
CopiedPaths(f, root, es) ==
    {q \in DOMAIN f : Under(q, root) /\ TopName(q, root) \in es /\ q \notin Unreadable}

\* the files after the entries es of root were copied to new_repo_path
CopiedFs(f, root, new_repo_path, es) ==
    LET Dst(q) == new_repo_path \o "/" \o RelativeTo(q, root)
        Src(q) == root \o "/" \o RelativeTo(q, new_repo_path)
        dst == {Dst(q) : q \in CopiedPaths(f, root, es)}
    IN  [q \in DOMAIN f \cup dst |-> IF q \in dst THEN f[Src(q)] ELSE f[q]]

\* the directories after os.makedirs(new_repo_path) and the copy of the
\* entries es: copytree makes every directory of an entry, empty ones too
CopiedDirs(f, d, root, new_repo_path, es) ==
    LET Dst(q) == new_repo_path \o "/" \o RelativeTo(q, root)
    IN  d \cup {new_repo_path}
          \cup {Dst(q) : q \in {p \in d : Under(p, root) /\ TopName(p, root) \in es}}
          \cup UNION {Ancestors(Dst(q)) : q \in CopiedPaths(f, root, es)}

\* os.makedirs(new_repo_path), then copytree / copy2 of every kept entry
Assemble ==
    /\ pc = "processing"
    /\ LoopDone(files, idx)
    /\ FailingEntries(fs, dirs, local_path) = {}
    /\ LET new_repo_path == NewRepoPath(local_path, task.language)
           es == KeptEntries(fs, dirs, local_path)
       IN  /\ fs' = CopiedFs(fs, local_path, new_repo_path, es)
           /\ dirs' = CopiedDirs(fs, dirs, local_path, new_repo_path, es)
           /\ log' = log \o <<Ev("mkdir", new_repo_path), Ev("copy", new_repo_path)>>
    /\ pc' = "assembled"
    /\ UNCHANGED <<task, original, local_path, files, idx, new_files, result, records, direct, tables>>

\* The copy of an entry raises (the copy loop is not guarded): the directory
\* was made and the entries that os.listdir gave before the failing one were
\* copied, as were the readable files of a failing directory; the exception
\* leaves the with block, which does not remove new_repo_path.
AssembleRaise ==
    /\ pc = "processing"
    /\ LoopDone(files, idx)
    /\ \E e \in FailingEntries(fs, dirs, local_path) :
       \E before \in SUBSET (KeptEntries(fs, dirs, local_path) \ FailingEntries(fs, dirs, local_path)) :
         LET new_repo_path == NewRepoPath(local_path, task.language)
             es == before \cup {e}
         IN  /\ fs' = ExitFiles("raise", CopiedFs(fs, local_path, new_repo_path, es))
             /\ dirs' = ExitDirs("raise", CopiedDirs(fs, dirs, local_path, new_repo_path, es))
             /\ log' = Append(log, Ev("mkdir", new_repo_path))
    /\ pc' = "raised"
    /\ UNCHANGED <<task, original, local_path, files, idx, new_files, result, records, direct, tables>>

\* list_files is not guarded
StageRaise ==
    /\ pc = "cloned"
    /\ Raised

\* push_url = commit_and_push(new_repo_path, msg); return {...}
Publish ==
    /\ pc = "assembled"
    /\ \E push \in PushOutcomes(dirs, NewRepoPath(local_path, task.language)) :
         result' = Response(task.github_url, push, task.language, new_files, task.modifications)
    /\ log' = Append(log, Ev("push", NewRepoPath(local_path, task.language)))
    /\ pc' = "done"
    /\ fs' = ExitFiles("return", fs)
    /\ dirs' = ExitDirs("return", dirs)
    /\ UNCHANGED <<task, original, local_path, files, idx, new_files, records, direct, tables>>

Next ==
    \/ CloneOk
    \/ CloneNone
    \/ CloneRaise
    \/ Enumerate
    \/ ProcessFile
    \/ Assemble
    \/ AssembleRaise
    \/ StageRaise
    \/ Publish

Spec == Init /\ [][Next]_vars

(***************************************************************************)
(* The single-file request: StriveCodeEngine._handle_transpile.            *)
(***************************************************************************)
InitT ==
    /\ pc = "created"
    /\ task = [github_url |-> "invalid", language |-> "rust",
               modifications |-> <<>>, optimize |-> TRUE]
    /\ fs = EmptyFs
    /\ dirs = {"/tmp", TmpDir}
    /\ original = EmptyFs
    /\ local_path = None
    /\ files = <<>>
    /\ idx = 1
    /\ new_files = <<>>
    /\ result = NoResult
    /\ records = <<>>
    /\ log = <<>>
    /\ t_req = NoRequest
    /\ t_resp = NoRequest
    /\ t_back = NoRequest
    /\ t_forth = NoRequest
    /\ tables = ImportedTables
    /\ calls = <<>>
    /\ o_req = NoRequest
    /\ o_resp = NoRequest
    /\ o_again = NoRequest

\* engine.process of a transpile task: one call of transpile
TranspileRequest ==
    /\ t_req = NoRequest
    /\ \E code \in RequestCodes, pair \in RequestPairs :
         LET from == pair[1]
             to == pair[2]
         IN  /\ t_req' = [code |-> code, from |-> from, to |-> to]
             /\ t_resp' = TranspileWith(tables, [code |-> code, from |-> from, to |-> to])
             /\ tables' = TablesAfterCall(tables, Lower(from), Lower(to))
    /\ UNCHANGED <<job, t_back, t_forth, calls, o_req, o_resp, o_again>>

\* the request that takes the code of the last response back to the language
\* it came from
BackRequest == [code |-> t_resp.code, from |-> t_req.to, to |-> t_req.from]

\* the second call of a round trip, as test_roundtrip makes it
TranspileBack ==
    /\ "code" \in DOMAIN t_resp
    /\ t_back = NoRequest
    /\ t_back' = TranspileWith(tables, BackRequest)
    /\ tables' = TablesAfterCall(tables, Lower(BackRequest.from), Lower(BackRequest.to))
    /\ UNCHANGED <<job, t_req, t_resp, t_forth, calls, o_req, o_resp, o_again>>

\* a third call, which takes the code of the second response to the language
\* of the first response again: with the second call it is a round trip of
\* the first response
TranspileForth ==
    /\ "code" \in DOMAIN t_back
    /\ t_forth = NoRequest
    /\ t_forth' = TranspileWith(tables, [code |-> t_back.code, from |-> t_req.from, to |-> t_req.to])
    /\ tables' = TablesAfterCall(tables, Lower(t_req.from), Lower(t_req.to))
    /\ UNCHANGED <<job, t_req, t_resp, t_back, calls, o_req, o_resp, o_again>>

NextT ==
    \/ TranspileRequest
    \/ TranspileBack
    \/ TranspileForth

SpecT == InitT /\ [][NextT]_vars

(***************************************************************************)
(* A client that calls transpile several times on one imported module:     *)
(* every call finds the rule tables as the calls before it left them.      *)
(***************************************************************************)
MaxCalls == 3

CallCodes ==
    {"if a:\n    b = True",
     "let é = null;",
     "def é(x):\n    print(x)"}

CallPairs == {<<"python", "javascript">>, <<"javascript", "python">>, <<"Python", "go">>}

\* one more call of transpile, and what it returned
TranspileCall ==
    /\ Len(calls) < MaxCalls
    /\ \E code \in CallCodes, pair \in CallPairs :
         LET req == [code |-> code, from |-> pair[1], to |-> pair[2]]
         IN  /\ calls' = Append(calls, [req |-> req, resp |-> TranspileWith(tables, req)])
             /\ tables' = TablesAfterCall(tables, Lower(pair[1]), Lower(pair[2]))
    /\ UNCHANGED <<job, t_req, t_resp, t_back, t_forth, o_req, o_resp, o_again>>

SpecD == InitT /\ [][TranspileCall]_vars

(***************************************************************************)
(* The optimize request: StriveCodeEngine._handle_optimize.                *)
(***************************************************************************)
OptimizeCodes ==
    {"import os\nimport sys\n\npass",
     "from . import x\nx()",
     "from .pkg import y\ny = 2",
     "import foo\ny = 1",
     "import foo",
     "import a.b\na.b.c()",
     "from m import name\nname()",
     "def f():\n    pass",
     "def f():\n    x = 1\n    pass",
     "x = 1\npass\ny = 2",
     "var a",
     "let a",
     "x = 1",
     "",
     "if a:\n    pass\nelse:\n    b = 1",
     "  import re\nre.sub",
     "import json\nvar j",
     "from typing import List",
     "x = 1\n\fpass",
     "x = 1\npass"}

OptimizeLangs == {"python", "javascript", "Python", "rust"}

\* engine.process of an optimize task: one call of optimize
OptimizeRequest ==
    /\ \E code \in OptimizeCodes, lang \in OptimizeLangs :
         /\ o_req' = [code |-> code, language |-> lang]
         /\ o_resp' = optimize([code |-> code, language |-> lang])
    /\ o_again' = NoRequest
    /\ UNCHANGED <<job, t_req, t_resp, t_back, t_forth, tables, calls>>

\* optimize called on what optimize returned
OptimizeAgain ==
    /\ o_resp # NoRequest
    /\ o_again = NoRequest
    /\ o_again' = optimize([code |-> o_resp.optimized_code, language |-> o_req.language])
    /\ UNCHANGED <<job, t_req, t_resp, t_back, t_forth, tables, calls, o_req, o_resp>>

NextO ==
    \/ OptimizeRequest
    \/ OptimizeAgain

SpecO == InitT /\ [][NextO]_vars

(***************************************************************************)
(* What the claims speak of.                                               *)
(***************************************************************************)
\* the job returned a response of status "reconstructed"
Reconstructed == pc = "done" /\ "status" \in DOMAIN result

\* the root of the assembled tree
AssembledRoot == NewRepoPath(local_path, task.language)

\* the positions of the log that hold a call of one of the operations ops
Calls(ops) == {i \in 1..Len(log) : log[i].op \in ops}

\* the files of the clone that list_files enumerates and that are no code files
PlainFiles ==
    {q \in DOMAIN original : /\ Under(q, local_path)
                             /\ ~HasHiddenPart(RelativeTo(q, local_path))
                             /\ ~_is_code_file(q)}

(***************************************************************************)
(* C1. When clone_repo returns no local path, the job returns a payload    *)
(* that carries an error and nothing else, the clone is the only call it   *)
(* made (no file was enumerated, read or written, nothing was published),  *)
(* and no assembled directory exists.                                      *)
(***************************************************************************)
C1_CloneFailureEndsJob ==
    (log # <<>> /\ local_path = None) =>
        /\ pc = "done"
        /\ DOMAIN result = {"error"}
        /\ log = <<Ev("clone", task.github_url)>>
        /\ files = <<>> /\ new_files = <<>> /\ records = <<>>
        /\ fs = EmptyFs
        /\ dirs = {"/tmp"}

\* clone_repo got a well-formed URL and returned None for a failed git clone
C1_Witness ==
    /\ pc = "done"
    /\ local_path = None
    /\ task.github_url = PublicUrl
    /\ result = [error |-> "Clone failed"]

(***************************************************************************)
(* C2. A job whose clone succeeded and whose files were enumerated         *)
(* returns status "reconstructed" with files_transpiled at most the number *)
(* of enumerated files, whatever files could not be read, had no content   *)
(* or got an error from transpile: the loop visits every enumerated file   *)
(* before the job goes on, and the job does not end in an exception.       *)
(***************************************************************************)
C2_FileFailuresNeverAbort ==
    /\ (pc = "done" /\ local_path # None) =>
           /\ DOMAIN result = {"original", "new_repo", "language", "files_transpiled",
                               "modifications", "status"}
           /\ result.status = "reconstructed"
           /\ result.files_transpiled <= Len(files)
    /\ (pc \in {"assembled", "done", "raised"} /\ Calls({"list"}) # {}) =>
           idx = Len(files) + 1
    /\ \A i \in 1..Len(files) :
           (i < idx /\ _is_code_file(files[i]) /\ read_file(original, files[i]) # "") =>
               \E k \in 1..Len(records) : records[k].path = files[i]
    /\ pc = "raised" => Calls({"list"}) = {}

(***************************************************************************)
(* C3. A file whose transpile returned an error is skipped: no output is   *)
(* written for it, and the returned files_transpiled is lower than the     *)
(* number of enumerated files.                                             *)
(***************************************************************************)
C3_FailedTranspileIsSkipped ==
    Reconstructed =>
        \A k \in 1..Len(records) :
            records[k].tstatus = "error" =>
                /\ ~records[k].written
                /\ result.files_transpiled < Len(files)

(***************************************************************************)
(* C4. Every response of status "reconstructed" carries a destination:     *)
(* a job whose commit_and_push returned None does not report success.      *)
(***************************************************************************)
C4_PublishFailureIsFatal ==
    Reconstructed => result.new_repo # None

(***************************************************************************)
(* C5. The working directory exists while the job runs, and once the job   *)
(* has returned or raised, neither it nor anything below it exists.        *)
(***************************************************************************)
C5_WorkingDirectoryReleased ==
    /\ pc \in {"created", "cloned", "processing", "assembled"} => TmpDir \in dirs
    /\ pc \in {"done", "raised"} =>
           /\ TmpDir \notin dirs
           /\ \A q \in dirs \cup DOMAIN fs : ~Under(q, TmpDir)

\* an exception left the job after it had written files into the directory
C5_Witness ==
    /\ pc = "raised"
    /\ \E k \in 1..Len(records) : records[k].written
    /\ TmpDir \notin dirs

(***************************************************************************)
(* C6. The calls of one job are in the order clone, list, then the reads,  *)
(* transpiles and writes of the loop, then the assembly, then the push:    *)
(* the clone is first, the list second, the assembly starts when the loop  *)
(* has visited every enumerated file and no file is read or written after  *)
(* it, and push is called at most once, right after the assembly.          *)
(***************************************************************************)
C6_StagesInOrder ==
    /\ log # <<>> => log[1].op = "clone"
    /\ Calls({"clone"}) \subseteq {1}
    /\ Calls({"list"}) \subseteq {2}
    /\ \A i \in Calls({"read", "transpile", "write"}) : 2 \in Calls({"list"}) /\ i > 2
    /\ \A i \in Calls({"mkdir"}) :
           /\ idx = Len(files) + 1
           /\ \A j \in Calls({"read", "transpile", "write"}) : j < i
           /\ Calls({"mkdir"}) = {i} /\ Calls({"copy"}) \subseteq {i + 1}
    /\ \A i \in Calls({"push"}) :
           /\ Calls({"push"}) = {i}
           /\ i = Len(log)
           /\ i - 1 \in Calls({"copy"})
    /\ \A i \in Calls({"read"}) : \E k \in 1..(idx - 1) : files[k] = log[i].arg

\* a job that read and wrote two files, assembled and published
C6_Witness ==
    /\ pc = "done"
    /\ Cardinality(Calls({"write"})) = 2
    /\ Calls({"push"}) = {Len(log)}

(***************************************************************************)
(* C7. Every enumerated file of the clone that is no code file is in the   *)
(* assembled tree at its relative path, with the content it had in the     *)
(* clone.                                                                  *)
(***************************************************************************)
C7_PlainFilesPreserved ==
    pc \in {"assembled", "done"} =>
        \A q \in PlainFiles :
            LET copy == AssembledRoot \o "/" \o RelativeTo(q, local_path)
            IN  copy \in DOMAIN fs /\ fs[copy] = original[q]

(***************************************************************************)
(* C8. No file with a segment that begins with a dot in its path relative  *)
(* to the repository root is enumerated, and none is in the assembled      *)
(* tree.                                                                   *)
(***************************************************************************)
C8_NoHiddenFileCarriedOver ==
    /\ \A i \in 1..Len(files) : ~HasHiddenPart(RelativeTo(files[i], local_path))
    /\ pc \in {"assembled", "done"} =>
           \A q \in DOMAIN fs :
               Under(q, AssembledRoot) => ~HasHiddenPart(RelativeTo(q, AssembledRoot))

(***************************************************************************)
(* C9. transpile is called for a file only when its detected language is   *)
(* not the target language; a file whose detected language is the target   *)
(* language gets no transpile call and its content, as read, is what       *)
(* optimize and the modifications receive.                                 *)
(***************************************************************************)
C9_TranspileOnlyAcrossLanguages ==
    /\ \A k \in 1..Len(records) :
           /\ records[k].called => records[k].src_lang # task.language
           /\ records[k].src_lang = task.language =>
                  /\ ~records[k].called
                  /\ records[k].staged = records[k].code
    /\ \A i \in Calls({"transpile"}) :
           \E k \in 1..Len(records) : records[k].path = log[i].arg /\ records[k].called
    /\ Cardinality(Calls({"transpile"})) =
           Cardinality({k \in 1..Len(records) : records[k].called})

\* a job with a file in the target language, passed on as read, and a file
\* in another language, which transpile rewrote
C9_Witness ==
    /\ pc = "done"
    /\ \E k, m \in 1..Len(records) :
           /\ records[k].src_lang = task.language /\ ~records[k].called
           /\ records[m].called /\ records[m].tstatus = "transpiled"
           /\ records[m].staged # records[m].code

\* name is the word lang, each of its letters in either case
SpellsLanguage(name, lang) ==
    /\ Len(name) = Len(lang)
    /\ \A i \in 1..Len(lang) :
           \E k \in 1..Len(LowerAlpha) :
               /\ Char(lang, i) = Char(LowerAlpha, k)
               /\ Char(name, i) \in {Char(LowerAlpha, k), Char(UpperAlpha, k)}

\* the pair (from, to) of a request names a pair that has a rule table
NamesRuleTable(from, to) ==
    \E pair \in SupportedPairs : SpellsLanguage(from, pair[1]) /\ SpellsLanguage(to, pair[2])

(***************************************************************************)
(* C10. transpile with a pair of languages that has no rule table returns  *)
(* a payload whose only field is the error message: it has no code and no  *)
(* status, so no rule and no re-indentation reached the text.  The message *)
(* names the two languages in lower case, whatever their alphabet.         *)
(***************************************************************************)
C10_UnsupportedPairIsAnError ==
    /\ (t_req # NoRequest /\ ~NamesRuleTable(t_req.from, t_req.to)) =>
           /\ DOMAIN t_resp = {"error"}
           /\ t_resp.error = UnsupportedMsg(Lower(t_req.from), Lower(t_req.to))
    /\ (t_req # NoRequest /\ t_req.from = "ÉCOLE" /\ t_req.to = "go") =>
           t_resp = [error |-> "Transpilation école → go not supported"]
    /\ (t_req # NoRequest /\ t_req.from = "python" /\ t_req.to = "ΟΔΟΣ") =>
           t_resp = [error |-> "Transpilation python → οδος not supported"]

\* the request of the test: rust to go
C10_Witness ==
    /\ t_req # NoRequest
    /\ t_req.from = "rust" /\ t_req.to = "go" /\ t_req.code = "fn main() {}"
    /\ t_resp = [error |-> "Transpilation rust → go not supported"]

(***************************************************************************)
(* What the claims about transpile speak of.                               *)
(***************************************************************************)
\* the last transpile request was for the pair (src, dst) and got a text back
Transpiled(src, dst) ==
    /\ t_req # NoRequest
    /\ "code" \in DOMAIN t_resp
    /\ t_resp.from = src /\ t_resp.to = dst

\* some rule of the table of (src, dst) matches somewhere in text
Recognized(src, dst, text) ==
    \E k \in 1..Len(TRANSPILE_RULES(src, dst)), pos \in 1..Len(text) :
        MatchFrom(TRANSPILE_RULES(src, dst)[k][1], 1, text, pos, <<>>) # NoMatch

\* the leading whitespace of a line
IndentOf(line) == SubSeq(line, 1, Len(line) - Len(LStrip(line)))

\* the indentation unit of a language
IndentUnit(lang) == IF lang = "python" THEN "    " ELSE "  "

\* the depth of a line: the whole units of the language in its leading whitespace
Depth(line, lang) == Len(IndentOf(line)) \div Len(IndentUnit(lang))

\* The lines of a python to javascript output that the closing step put in:
\* it puts "}" and a newline after every newline that is followed neither by
\* whitespace nor by "}", so a line is one of them exactly when the next line
\* starts with such a character, or is the empty line that ends the text.
CloserLines(lines) ==
    {k \in 1..(Len(lines) - 1) :
        IF lines[k + 1] = "" THEN k + 1 = Len(lines)
        ELSE Char(lines[k + 1], 1) \notin Whitespace \cup {"}"}}

\* the positions of the other lines, which come from the lines of the input
DerivedLines(lines) == (1..Len(lines)) \ CloserLines(lines)

\* the lines of a python to javascript output that come from the input, in order
WithoutClosers(lines) ==
    [i \in 1..Cardinality(DerivedLines(lines)) |-> lines[NthPosition(DerivedLines(lines), i)]]

\* the text of test_indentation
IndentationText == "\ndef test():\n    x = 1\n    if x:\n        y = 2\n"

(***************************************************************************)
(* C12. For both supported pairs, transpile of a text in which no rule     *)
(* pattern matches returns status "transpiled" and a text with the same    *)
(* number of lines, each line equal to the input line up to its leading    *)
(* whitespace.                                                             *)
(***************************************************************************)
C12_NoConstructOnlyReindented ==
    \A pair \in SupportedPairs :
        (Transpiled(pair[1], pair[2]) /\ ~Recognized(pair[1], pair[2], t_req.code)) =>
            LET inl == Split(t_req.code, "\n")
                outl == Split(t_resp.code, "\n")
            IN  /\ t_resp.status = "transpiled"
                /\ Len(outl) = Len(inl)
                /\ \A i \in 1..Len(inl) : LStrip(outl[i]) = LStrip(inl[i])

(***************************************************************************)
(* C13. For python to javascript, every input line whose leading           *)
(* whitespace is d times four spaces gives an output line whose leading    *)
(* whitespace is d times two spaces, for every d >= 0.                     *)
(***************************************************************************)
C13_IndentationRemapped ==
    Transpiled("python", "javascript") =>
        LET inl == Split(t_req.code, "\n")
            outl == WithoutClosers(Split(t_resp.code, "\n"))
        IN  /\ Len(outl) = Len(inl)
            /\ \A i \in 1..Len(inl) :
                   LET d == Depth(inl[i], "python")
                   IN  IndentOf(inl[i]) = Repeat("    ", d) => IndentOf(outl[i]) = Repeat("  ", d)

\* the text of test_indentation: x = 1 at depth 1 comes out with 2 leading
\* spaces, y = 2 at depth 2 with 4
C13_Witness ==
    /\ Transpiled("python", "javascript")
    /\ t_req.code = IndentationText
    /\ WithoutClosers(Split(t_resp.code, "\n"))[3] = "  let x = 1;"
    /\ WithoutClosers(Split(t_resp.code, "\n"))[5] = "    let y = 2;"

(***************************************************************************)
(* C14. For python to javascript on a text without braces: a closer is     *)
(* put in only before a line whose depth is lower than that of the last    *)
(* non-blank line before it, or at the end of the text, and the output     *)
(* has as many closing braces as opening ones.                             *)
(***************************************************************************)
C14_ClosersMatchBlocks ==
    (Transpiled("python", "javascript")
        /\ SepPositions(t_req.code, "{") = {} /\ SepPositions(t_req.code, "}") = {}) =>
        LET outl == Split(t_resp.code, "\n")
            NonBlankBefore(k) == {p \in DerivedLines(outl) : p < k /\ Strip(outl[p]) # ""}
        IN  /\ \A k \in CloserLines(outl) :
                   \/ k + 1 = Len(outl) /\ outl[k + 1] = ""
                   \/ /\ NonBlankBefore(k) # {}
                      /\ LET p == CHOOSE q \in NonBlankBefore(k) : \A r \in NonBlankBefore(k) : r <= q
                         IN  Depth(outl[k + 1], "javascript") < Depth(outl[p], "javascript")
            /\ Cardinality(SepPositions(t_resp.code, "}"))
                   = Cardinality(SepPositions(t_resp.code, "{"))

\* The text a of language src was transpiled to b and b back to c: the line
\* of c that comes from line i of a has the depth of line i, in units of
\* src.  (The closers are put in by the call to javascript: in b when src is
\* python, in c when it is javascript.)
KeepsDepths(src, a, b, c) ==
    LET inl == Split(a, "\n")
        mid == Split(b, "\n")
        fin == Split(c, "\n")
        kept == IF src = "python" THEN DerivedLines(mid) ELSE DerivedLines(fin)
    IN  /\ Cardinality(kept) = Len(inl)
        /\ \A i \in 1..Len(inl) :
               Depth(fin[NthPosition(kept, i)], src) = Depth(inl[i], src)

(***************************************************************************)
(* C15. Indentation round trip: for both supported pairs (A, B), after a   *)
(* text is transpiled from A to B and the result from B to A, the line     *)
(* that comes from line i of the input has the depth of line i, in units   *)
(* of A; and when the result is transpiled to B again, the same holds of   *)
(* the round trip from B that the second and the third call make.          *)
(***************************************************************************)
C15_IndentationRoundTrip ==
    \A pair \in SupportedPairs :
        /\ (Transpiled(pair[1], pair[2]) /\ t_back # NoRequest) =>
               /\ "code" \in DOMAIN t_back
               /\ KeepsDepths(pair[1], t_req.code, t_resp.code, t_back.code)
        /\ (Transpiled(pair[1], pair[2]) /\ t_forth # NoRequest) =>
               /\ "code" \in DOMAIN t_forth
               /\ KeepsDepths(pair[2], t_resp.code, t_back.code, t_forth.code)

\* python with lines at depth 1 and 2 to javascript, back to python and to
\* javascript again: y = 2 is at depth 2 in the python text that came back,
\* and at depth 2 in both javascript texts
C15_Witness ==
    /\ Transpiled("python", "javascript")
    /\ t_req.code = IndentationText
    /\ t_forth # NoRequest
    /\ Split(t_req.code, "\n")[5] = "        y = 2"
    /\ Split(t_resp.code, "\n")[6] = "    let y = 2;"
    /\ Split(t_back.code, "\n")[6] = "        y = 2"
    /\ Split(t_forth.code, "\n")[7] = "    let y = 2;"

(***************************************************************************)
(* C16. Print round trip: for both supported pairs (A, B), transpiling     *)
(* the text print('test') from A to B and the result from B to A gives a   *)
(* text that contains print.                                               *)
(***************************************************************************)
C16_PrintRoundTrip ==
    \A pair \in SupportedPairs :
        (Transpiled(pair[1], pair[2]) /\ t_back # NoRequest /\ t_req.code = "print('test')") =>
            In("print", t_back.code)

(***************************************************************************)
(* What the claims about optimize speak of.                                *)
(***************************************************************************)
\* the last optimize request was for the language lang
Optimized(lang) == o_req # NoRequest /\ o_resp.language = lang

\* the name an import statement binds: the first component of the module of
\* "import a.b", the name after import of "from m import name"
BoundName(line) ==
    LET words == SplitWs(line)
    IN  IF words[1] = "import" THEN Split(words[2], ".")[1]
        ELSE IF Len(words) >= 4 /\ words[3] = "import" THEN words[4]
        ELSE ""

\* the name occurs as an identifier in a line of the text other than line i
UsedElsewhere(name, lines, i) ==
    \E j \in 1..Len(lines) : j # i /\ name \in UsedVars(lines[j])

\* line i is a pass that is the only statement of its block: the line before
\* it opens the block and no line of the block follows
SolePass(lines, i) ==
    /\ Strip(lines[i]) = "pass"
    /\ i > 1
    /\ EndsWith(Strip(lines[i - 1]), ":")
    /\ Len(IndentOf(lines[i - 1])) < Len(IndentOf(lines[i]))
    /\ \A j \in (i + 1)..Len(lines) :
           (\A m \in (i + 1)..(j - 1) : Strip(lines[m]) = "") /\ Strip(lines[j]) # ""
               => Len(IndentOf(lines[j])) < Len(IndentOf(lines[i]))

(***************************************************************************)
(* C17. optimize is idempotent for python and javascript: optimize on the  *)
(* text that optimize returned gives the same text and an empty list of    *)
(* improvements.                                                           *)
(***************************************************************************)
C17_OptimizeIdempotent ==
    \A lang \in {"python", "javascript"} :
        (Optimized(lang) /\ o_again # NoRequest) =>
            /\ o_again.optimized_code = o_resp.optimized_code
            /\ o_again.improvements = <<>>

(***************************************************************************)
(* C18. optimize for python keeps every import statement whose bound name  *)
(* occurs in another line of the text, relative imports included.          *)
(***************************************************************************)
C18_UsedImportKept ==
    (Optimized("python") /\ o_resp # NoRequest) =>
        LET inl == Split(o_req.code, "\n")
            outl == Split(o_resp.optimized_code, "\n")
        IN  \A i \in 1..Len(inl) :
                (IsImportLine(inl[i]) /\ UsedElsewhere(BoundName(inl[i]), inl, i)) =>
                    \E k \in 1..Len(outl) : outl[k] = inl[i]

(***************************************************************************)
(* C19. optimize for python removes every import statement whose bound     *)
(* name occurs in no other line of the text, records an improvement for    *)
(* it, and returns a text shorter than the input.                          *)
(***************************************************************************)
C19_UnusedImportRemoved ==
    (Optimized("python") /\ o_resp # NoRequest) =>
        LET inl == Split(o_req.code, "\n")
            outl == Split(o_resp.optimized_code, "\n")
        IN  \A i \in 1..Len(inl) :
                (IsImportLine(inl[i]) /\ ~UsedElsewhere(BoundName(inl[i]), inl, i)) =>
                    /\ \A k \in 1..Len(outl) : outl[k] # inl[i]
                    /\ \E k \in 1..Len(o_resp.improvements) :
                           o_resp.improvements[k] = "Removed unused import: " \o Strip(inl[i])
                    /\ Len(o_resp.optimized_code) < Len(o_req.code)

(***************************************************************************)
(* C20. optimize for python leaves in place a pass that is the only        *)
(* statement of its block.                                                 *)
(***************************************************************************)
C20_SolePassKept ==
    (Optimized("python") /\ o_resp # NoRequest) =>
        LET inl == Split(o_req.code, "\n")
            outl == Split(o_resp.optimized_code, "\n")
        IN  \A i \in 1..Len(inl) :
                SolePass(inl, i) => \E k \in 1..Len(outl) : outl[k] = inl[i]

\* the keyword holds the trigger in some letter case: at some place the
\* letters of "add auth" one after another, each small or capital
HoldsTrigger(mod) ==
    \E p \in 1..(Len(mod) - 7) :
        \A i \in 1..8 : Char(mod, p + i - 1) \in {Char("add auth", i), Char("ADD AUTH", i)}

\* the positions of a modification list whose keyword holds the trigger
Matching(mods) == {k \in 1..Len(mods) : HoldsTrigger(mods[k])}

(***************************************************************************)
(* C21. The modification list is applied keyword by keyword: the content   *)
(* written for a file is the text the modification loop started from (the  *)
(* field optimized of the record of the file), unchanged,                  *)
(* followed by the authentication marker once for every keyword that holds *)
(* the trigger "add auth" in any letter case and by nothing for any other  *)
(* keyword (a keyword without the trigger is no error: the step has no     *)
(* failing outcome).  So when the list has a matching keyword, the content *)
(* of every written file holds the marker.                                 *)
(***************************************************************************)
C21_ModificationsApplied ==
    \A i \in 1..Len(records) :
        LET r == records[i]
            n == Cardinality(Matching(task.modifications))
        IN  /\ r.new_code = r.optimized \o Repeat(AuthPatch, n)
            /\ (n > 0 /\ r.written /\ i = Len(records) /\ pc = "processing")
                   => In(AuthPatch, fs[r.new_path])

\* a file was written under a list of a keyword without the trigger and a
\* keyword with it in mixed case, and its content ends with the one marker
C21_Witness ==
    /\ pc = "processing"
    /\ task.modifications = <<"add logging", " É Add Auth">>
    /\ \E i \in 1..Len(records) :
           /\ records[i].written
           /\ records[i].new_code = records[i].optimized \o "\n# AUTH ADDED: JWT middleware"
           /\ fs[records[i].new_path] = records[i].new_code

\* the code of test_python_to_js
GreetText == "\ndef greet(name):\n    print(f\"Hello, {name}!\")\n    return True\n"

(***************************************************************************)
(* C22. python to javascript on the function definition of                 *)
(* test_python_to_js, whose body prints and returns True: the status is    *)
(* "transpiled" and the output holds the header function greet(name), a    *)
(* console.log call for the print, and the statement return true; with     *)
(* its semicolon.                                                          *)
(***************************************************************************)
C22_FunctionTranspiled ==
    (Transpiled("python", "javascript") /\ t_req.code = GreetText) =>
        /\ t_resp.status = "transpiled"
        /\ In("function greet(name)", t_resp.code)
        /\ In("console.log(", t_resp.code)
        /\ In("return true;", t_resp.code)

(***************************************************************************)
(* C23. Every rule of a table is effective on the construct it is written  *)
(* for, although the rules before it have been applied to the text: the    *)
(* python line elif c: comes out as } else if (c) { and the javascript     *)
(* line } else if (c) { comes out as elif c:.                              *)
(***************************************************************************)
C23_ElifRuleEffective ==
    /\ (Transpiled("python", "javascript") /\ t_req.code = "elif c:")
           => t_resp.code = "} else if (c) {"
    /\ (Transpiled("javascript", "python") /\ t_req.code = "} else if (c) {")
           => t_resp.code = "elif c:"

\* The scope depth of line i of a javascript text: the lines before it that
\* end with an opening brace, less the lines up to it that start with a
\* closing one.
BraceDepth(lines, i) ==
    LET opened == Cardinality({j \in 1..(i - 1) : EndsWith(Strip(lines[j]), "{")})
        closed == Cardinality({j \in 1..i : StartsWith(Strip(lines[j]), "}")})
    IN  IF opened > closed THEN opened - closed ELSE 0

(***************************************************************************)
(* C24. For javascript to python, every output line is indented by the     *)
(* python unit times the scope depth of its input line, a counter of the   *)
(* opening braces not yet closed; the leading whitespace of the input line *)
(* has no part in it.                                                      *)
(***************************************************************************)
C24_IndentationFromBraces ==
    Transpiled("javascript", "python") =>
        LET inl == Split(t_req.code, "\n")
            outl == Split(t_resp.code, "\n")
        IN  /\ Len(outl) = Len(inl)
            /\ \A i \in 1..Len(inl) :
                   LStrip(outl[i]) # "" =>
                       IndentOf(outl[i]) = Repeat(IndentUnit("python"), BraceDepth(inl, i))

(***************************************************************************)
(* C25. A line whose leading whitespace is no whole number of units of     *)
(* the source language is passed through with its leading whitespace       *)
(* unchanged: its depth is not rounded.                                    *)
(***************************************************************************)
C25_OddIndentationPassedThrough ==
    \A pair \in SupportedPairs :
        Transpiled(pair[1], pair[2]) =>
            LET inl == Split(t_req.code, "\n")
                all == Split(t_resp.code, "\n")
                outl == IF pair[1] = "python" THEN WithoutClosers(all) ELSE all
            IN  /\ Len(outl) = Len(inl)
                /\ \A i \in 1..Len(inl) :
                       (/\ LStrip(inl[i]) # ""
                        /\ Len(IndentOf(inl[i])) % Len(IndentUnit(pair[1])) # 0)
                           => IndentOf(outl[i]) = IndentOf(inl[i])

\* the place in the assembled tree of a path of the work tree
Asm(path) == AssembledRoot \o "/" \o RelativeTo(path, local_path)

(***************************************************************************)
(* C26. The output path of a processed file is its input path with the     *)
(* final extension alone replaced by the extension of the target language: *)
(* the directories and the stem are those of the input path, also when the *)
(* text of the extension occurs elsewhere in the path.                     *)
(***************************************************************************)
C26_OnlyFinalExtensionReplaced ==
    \A i \in 1..Len(records) :
        LET r == records[i]
            ext == SplitExt(r.path)
        IN  r.new_path = SubSeq(r.path, 1, Len(r.path) - Len(ext)) \o _get_ext(task.language)

(***************************************************************************)
(* C27. No file's processing depends on another file: the content read     *)
(* for every processed file is the content that file had in the clone, so  *)
(* what is written for it is a function of that content and of the task,   *)
(* and what the assembled tree holds at the output path of a processed     *)
(* file is what was written for that file, whatever the order in which     *)
(* the files were processed.                                               *)
(***************************************************************************)
C27_NoCrossFileDependency ==
    \A i \in 1..Len(records) :
        LET r == records[i]
        IN  /\ r.code = TextMode(original[r.path])
            /\ (pc = "assembled" /\ r.written) => fs[Asm(r.new_path)] = r.new_code

(***************************************************************************)
(* C28. The assembled directory is the clone path with the suffix          *)
(* _strived_in_<language>, a sibling of the working directory and not a    *)
(* part of it, so that it outlives the release of the working directory:   *)
(* from its creation on it exists in every state, and after a return with  *)
(* status "reconstructed" it still holds every file that was written.      *)
(***************************************************************************)
C28_AssembledDirectoryOutlivesJob ==
    (\E k \in 1..Len(log) : log[k].op = "mkdir") =>
        /\ AssembledRoot \in dirs
        /\ AssembledRoot # local_path /\ ~Under(AssembledRoot, local_path)
        /\ DirName(AssembledRoot) = DirName(local_path)
        /\ Reconstructed =>
               /\ TmpDir \notin dirs
               /\ \A i \in 1..Len(records) :
                      records[i].written => Asm(records[i].new_path) \in DOMAIN fs

\* a job returned "reconstructed" after it wrote a file: the working
\* directory is gone, the assembled one and the file in it are there
C28_Witness ==
    /\ Reconstructed
    /\ TmpDir \notin dirs
    /\ AssembledRoot \in dirs
    /\ \E i \in 1..Len(records) :
           /\ records[i].written
           /\ Asm(records[i].new_path) \in DOMAIN fs
           /\ fs[Asm(records[i].new_path)] = records[i].new_code

(***************************************************************************)
(* C29. Outputs are written into the work tree and no original is          *)
(* deleted: for every processed file whose extension is not the target     *)
(* extension, the assembled tree holds the original file with its original *)
(* content and the new file with the content made for it; a file whose     *)
(* extension is the target extension is written in place.                  *)
(***************************************************************************)
C29_OriginalsKeptBesideOutputs ==
    (pc = "assembled" \/ Reconstructed) =>
        \A i \in 1..Len(records) :
            LET r == records[i]
            IN  IF SplitExt(r.path) # _get_ext(task.language)
                THEN /\ Asm(r.path) \in DOMAIN fs
                     /\ fs[Asm(r.path)] = original[r.path]
                     /\ Asm(r.new_path) \in DOMAIN fs
                     /\ fs[Asm(r.new_path)] = r.new_code
                ELSE /\ r.new_path = r.path
                     /\ Asm(r.path) \in DOMAIN fs

(***************************************************************************)
(* C30. Every pair of the engine's transpile capability is supported: a    *)
(* request that names a pair of _get_transpilation_matrix is answered      *)
(* with status "transpiled" and not with an error payload.                 *)
(***************************************************************************)
C30_AdvertisedPairsSupported ==
    (t_req # NoRequest /\ <<t_req.from, t_req.to>> \in _get_transpilation_matrix) =>
        /\ "error" \notin DOMAIN t_resp
        /\ "status" \in DOMAIN t_resp
        /\ t_resp.status = "transpiled"

====
